---------------------------- MODULE Spec2Model ----------------------------
(***************************************************************************)
(* A model of obelus: the completion token (obelus/common.py Handler), the *)
(* AMI multiplexer (obelus/ami/protocol.py AMIProtocol), the AGI parser    *)
(* (obelus/agi/protocol.py AGIProtocol), the Async AGI executor            *)
(* (obelus/agi/asyncagi.py AsyncAGIExecutor) and the call manager          *)
(* (obelus/ami/calls.py CallManager).                                      *)
(*                                                                         *)
(* The library is single-threaded: every entry point runs to completion,   *)
(* callbacks included.  Each entry point is therefore one action.  The     *)
(* bodies of the Python functions are operators over a record w that holds *)
(* the objects' fields ("the world"); an operator returns the world after  *)
(* the call.  A Python exception is the field w.exc: once it is set, the   *)
(* rest of the enclosing bodies is skipped, as the interpreter unwinds.    *)
(* What a call does to the outside (bytes written, callbacks called, log   *)
(* records) is the sequence w.effects.  Neither is state of the program:   *)
(* an action keeps the fields of the objects and drops both, and a         *)
(* property of one call is stated of the operator applied to every         *)
(* reachable world and every input.                                        *)
(* Strings whose characters the code inspects are sequences of atoms: one  *)
(* atom per character, except that a literal word the code only ever       *)
(* searches for as a whole ("result", "follows", "End of proper usage.")   *)
(* is one atom.                                                            *)
(***************************************************************************)
EXTENDS Integers, Sequences, FiniteSets, TLC

VARIABLES
    handlers,        \* heap of Handler objects, indexed by identity 1..n
    _action_id,      \* AMIProtocol._action_id
    _actions,        \* AMIProtocol._actions: action id -> Handler identity
    _event_lists,    \* AMIProtocol._event_lists: action id -> EventList
    _event_handlers, \* BaseAMIProtocol._event_handlers: event name -> callable
    started,         \* history: per registered Handler, the first
                     \* EventList: start response it received, and the
                     \* events with its action id received since
    protos,          \* heap of AGIProtocol objects, indexed by identity 1..n
    python,          \* the major version of the interpreter running the code
    chans,           \* heap of _AsyncAGIChannel objects, indexed by identity
    _channels,       \* AsyncAGIExecutor._channels: channel id -> identity
    _command_id,     \* AsyncAGIExecutor._command_id
    ami,             \* AsyncAGIExecutor.ami is not None
    manager,         \* the fields of the CallManager on the multiplexer
    call_objects,    \* heap of Call objects, indexed by identity 1..n
    receiver,        \* a LineReceiver, with the lines it emitted and, as
                     \* history, the bytes it was fed and where they were cut
    parser,          \* the parser fields of the BaseAMIProtocol: _state,
                     \* _headers, _resp_type, _event_type, _payload
    closures,        \* heap of the cells the closures of one Handler.aggregate
                     \* call share: result_handler, pending, results; and, as
                     \* history, the children in the order they succeeded
    protocol_factory \* AsyncAGIExecutor.protocol_factory: the AGIProtocol
                     \* subclass it makes the parsers of, by name

vars == <<handlers, _action_id, _actions, _event_lists, _event_handlers, started,
          protos, python, chans, _channels, _command_id, ami, manager, call_objects,
          receiver, parser, closures, protocol_factory>>

---------------------------------------------------------------------------
(* Bounds of the model.                                                    *)

\* Handler objects created in one behaviour.
MaxHandlers == 2
\* Events the event lists may hold together before further ones are not fed.
MaxEvents == 2
\* Commands sent to one script or Fast AGI parser in one behaviour.
MaxCommands == 1
\* Continuation lines fed to an AGI parser inside one multi-line response.
MaxCont == 1
\* Commands sent through one Async AGI executor in one behaviour.
MaxAsyncCommands == 1
\* AsyncAGI Start events that get as far as creating a parser.
MaxProtos == 2
\* Call objects created in one behaviour, originated and incoming.
MaxCalls == 2
\* Bytes fed to one LineReceiver in one behaviour.
MaxBytes == 4
\* Chunks the transport delivers to one AMI protocol in one behaviour.
MaxChunks == 3
\* Messages the server sends after its greeting in one behaviour.
MaxMessages == 2
\* Characters of an argument of send_command.
MaxArgLen == 2

\* The code runs on Python 2 and on Python 3, and differs between them.
PythonVersions == {2, 3}

---------------------------------------------------------------------------
(* Maps (Python dicts) as functions with a finite domain.                  *)

EmptyMap == [k \in {} |-> k]

Put(m, k, v) == [x \in DOMAIN m \cup {k} |-> IF x = k THEN v ELSE m[x]]

Del(m, k) == [x \in DOMAIN m \ {k} |-> m[x]]

\* dict.update: the entries of b over those of a.
Update(a, b) == [x \in DOMAIN a \cup DOMAIN b |-> IF x \in DOMAIN b THEN b[x] ELSE a[x]]

\* Python's None where a string may stand.
None == "<None>"

\* headers.get(key, default)
HGet(headers, key, default) == IF key \in DOMAIN headers THEN headers[key] ELSE default

\* str.lower() on the header values of the model.
Lower(s) ==
    CASE s = "Start" -> "start"
      [] s = "Error" -> "error"
      [] s = "Success" -> "success"
      [] s = "Complete" -> "complete"
      [] s = "Bogus" -> "bogus"
      [] OTHER -> s

\* str(n) for the counters of the model.
IntStr(n) == <<"1", "2", "3", "4", "5", "6", "7", "8", "9">>[n]

---------------------------------------------------------------------------
(* Python strings as sequences of atoms, and the str methods the AGI code  *)
(* calls on them.                                                          *)

Digits == <<"0", "1", "2", "3", "4", "5", "6", "7", "8", "9">>

IsDigit(a) == \E i \in 1..10 : Digits[i] = a

DigitVal(a) == (CHOOSE i \in 1..10 : Digits[i] = a) - 1

Whitespace == {" ", "\t", "\n", "\r"}

\* s[i:] and s[:i] for 0-based i, as Python slices them
From(s, i) == SubSeq(s, i + 1, Len(s))

UpTo(s, i) == SubSeq(s, 1, IF i < Len(s) THEN i ELSE Len(s))

\* str.rstrip(chars), str.lstrip(chars)
RECURSIVE RStrip(_, _)
RStrip(s, chars) ==
    IF s # <<>> /\ s[Len(s)] \in chars THEN RStrip(SubSeq(s, 1, Len(s) - 1), chars) ELSE s

RECURSIVE LStrip(_, _)
LStrip(s, chars) ==
    IF s # <<>> /\ s[1] \in chars THEN LStrip(Tail(s), chars) ELSE s

\* str.startswith(prefix), str.endswith(suffix)
StartsWith(s, prefix) == Len(s) >= Len(prefix) /\ SubSeq(s, 1, Len(prefix)) = prefix

EndsWith(s, suffix) ==
    Len(s) >= Len(suffix) /\ SubSeq(s, Len(s) - Len(suffix) + 1, Len(s)) = suffix

\* c in s, for a one-character (one-atom) c
Contains(s, c) == \E i \in 1..Len(s) : s[i] = c

\* str.partition(sep): <<head, sep, tail>>, sep empty if it does not occur
Partition(s, sep) ==
    IF Contains(s, sep)
    THEN LET i == CHOOSE k \in 1..Len(s) : s[k] = sep /\ \A j \in 1..(k - 1) : s[j] # sep
         IN  <<SubSeq(s, 1, i - 1), <<sep>>, SubSeq(s, i + 1, Len(s))>>
    ELSE <<s, <<>>, <<>>>>

\* str.split(sep): the parts, empty ones included
RECURSIVE Split(_, _)
Split(s, sep) ==
    LET pt == Partition(s, sep)
    IN  IF pt[2] = <<>> THEN <<s>> ELSE <<pt[1]>> \o Split(pt[3], sep)

\* sep.join(parts)
RECURSIVE Join(_, _)
Join(parts, sep) ==
    IF parts = <<>> THEN <<>>
    ELSE IF Len(parts) = 1 THEN parts[1]
    ELSE parts[1] \o <<sep>> \o Join(Tail(parts), sep)

\* int(s, 10) on the atoms of the model: an optional sign and digits
IsInt(s) ==
    LET d == IF s # <<>> /\ s[1] = "-" THEN Tail(s) ELSE s
    IN  d # <<>> /\ \A i \in 1..Len(d) : IsDigit(d[i])

RECURSIVE ToNat(_)
ToNat(d) == IF d = <<>> THEN 0 ELSE 10 * ToNat(SubSeq(d, 1, Len(d) - 1)) + DigitVal(d[Len(d)])

ToInt(s) == IF s[1] = "-" THEN 0 - ToNat(Tail(s)) ELSE ToNat(s)

\* "%d" % n for the three-digit codes
CodeStr(n) == <<Digits[(n \div 100) + 1], Digits[((n \div 10) % 10) + 1], Digits[(n % 10) + 1]>>

---------------------------------------------------------------------------
(* Exceptions, effects, the world.                                         *)

NoExc == [cls |-> "None", msg |-> ""]

Exc(cls, msg) == [cls |-> cls, msg |-> msg]

Raise(w, e) == [w EXCEPT !.exc = e]

\* The call that gave w raised, and is unwinding.
Raised(w) == w.exc.cls # "None"

Emit(w, eff) == [w EXCEPT !.effects = Append(@, eff)]

\* logger.<level>(...): only the level and the occasion are kept.
Log(w, level, what) == Emit(w, [e |-> "log", level |-> level, what |-> what])

World ==
    [handlers |-> handlers, action_id |-> _action_id, actions |-> _actions,
     event_lists |-> _event_lists, event_handlers |-> _event_handlers,
     started |-> started, protos |-> protos, python |-> python,
     chans |-> chans, channels |-> _channels, command_id |-> _command_id, ami |-> ami,
     manager |-> manager, call_objects |-> call_objects, receiver |-> receiver,
     parser |-> parser, closures |-> closures, protocol_factory |-> protocol_factory,
     effects |-> <<>>, exc |-> NoExc]

\* The state after an entry point returned (or raised) with world w.
Commit(w) ==
    /\ handlers' = w.handlers
    /\ _action_id' = w.action_id
    /\ _actions' = w.actions
    /\ _event_lists' = w.event_lists
    /\ _event_handlers' = w.event_handlers
    /\ started' = w.started
    /\ protos' = w.protos
    /\ python' = w.python
    /\ chans' = w.chans
    /\ _channels' = w.channels
    /\ _command_id' = w.command_id
    /\ ami' = w.ami
    /\ manager' = w.manager
    /\ call_objects' = w.call_objects
    /\ receiver' = w.receiver
    /\ parser' = w.parser
    /\ closures' = w.closures
    /\ protocol_factory' = w.protocol_factory

---------------------------------------------------------------------------
(* obelus/common.py: Handler.                                              *)

\* A callback: none bound, a user's callable (the tests' Mock), or one of
\* the closures the library binds.
NoCb == [k |-> "None", chan |-> 0, cmd |-> "", h |-> 0]

MockCb == [k |-> "Mock", chan |-> 0, cmd |-> "", h |-> 0]

\* An object that is not callable, where a callback is expected.
NotCallable == [k |-> "NotCallable", chan |-> 0, cmd |-> "", h |-> 0]

\* Handler(): the class attributes _result_cb, _exception_cb, _triggered.
\* nfired and ncalls are history: how many deliveries passed the _triggered
\* test, and how often the user's callables bound to this Handler were
\* called.  What was delivered is in the effects of the call that did it.
NewHandler ==
    [result_cb |-> NoCb, exception_cb |-> NoCb, triggered |-> FALSE,
     action_id |-> None, nfired |-> 0, ncalls |-> 0]

\* The closures of CallManager.originate, defined further down.
RECURSIVE _call_queued(_, _, _)
RECURSIVE _call_failed(_, _, _)

\* The closures of Handler.aggregate, defined further down.
RECURSIVE _on_result(_, _, _)
RECURSIVE _on_exception(_, _, _)

\* AGISession._on_coroutine_result, defined further down.
RECURSIVE _on_coroutine_result(_, _, _)

\* cb(val), for the callback cb bound as the `kind` callback of Handler h.
RECURSIVE Invoke(_, _, _, _, _)
Invoke(w, cb, h, kind, val) ==
    CASE cb.k = "Mock" ->
            Emit([w EXCEPT !.handlers[h].ncalls = @ + 1],
                 [e |-> "call", h |-> h, kind |-> kind, val |-> val])
      [] cb.k = "_on_action_success" ->
            \* asyncagi.py: channel._commands[command_id] = handler
            [w EXCEPT !.chans[cb.chan].commands =
                          [x \in DOMAIN @ \cup {cb.cmd} |-> IF x = cb.cmd THEN cb.h ELSE @[x]]]
      [] cb.k = "_on_result" -> _on_result(w, cb, val)
      [] cb.k = "_on_exception" -> _on_exception(w, cb, val)
      [] cb.k = "_call_queued" -> _call_queued(w, cb, val)
      [] cb.k = "_call_failed" -> _call_failed(w, cb, val)
      [] cb.k = "_on_coroutine_result" -> _on_coroutine_result(w, cb, val)
      [] cb.k = "_on_action_failure" ->
            \* asyncagi.py: handler.on_exception(exc), which reads the
            \* property and calls what it holds
            Invoke(w, w.handlers[cb.h].exception_cb, cb.h, kind, val)
      [] OTHER -> Raise(w, Exc("TypeError", "object is not callable"))

\* on_result.setter
set_on_result(w, h, cb) ==
    IF w.handlers[h].result_cb # NoCb
    THEN Raise(w, Exc("ValueError", "on_result already set"))
    ELSE IF cb = NotCallable
    THEN Raise(w, Exc("TypeError", "on_result should be callable"))
    ELSE [w EXCEPT !.handlers[h].result_cb = cb]

\* on_exception.setter
set_on_exception(w, h, cb) ==
    IF w.handlers[h].exception_cb # NoCb
    THEN Raise(w, Exc("ValueError", "on_exception already set"))
    ELSE IF cb = NotCallable
    THEN Raise(w, Exc("TypeError", "on_exception should be callable"))
    ELSE [w EXCEPT !.handlers[h].exception_cb = cb]

\* self._triggered = True, with the history of it
Trigger(w, h, kind, val) ==
    Emit([w EXCEPT !.handlers[h].triggered = TRUE, !.handlers[h].nfired = @ + 1],
         [e |-> "fire", h |-> h, kind |-> kind, val |-> val])

RECURSIVE set_result(_, _, _)
RECURSIVE set_exception(_, _, _)

\* A set_result that forgets the _triggered test.
SetResultNoTriggerTest(w, h, result) ==
    IF w.handlers[h].result_cb # NoCb
    THEN Invoke(Trigger(w, h, "result", result), w.handlers[h].result_cb, h, "result", result)
    ELSE Trigger(w, h, "result", result)

set_result(w, h, result) ==
    IF w.handlers[h].triggered
    THEN Raise(w, Exc("RuntimeError", "Cannot trigger handler a second time"))
    ELSE IF w.handlers[h].result_cb # NoCb
    THEN Invoke(Trigger(w, h, "result", result), w.handlers[h].result_cb, h, "result", result)
    ELSE Trigger(w, h, "result", result)

set_exception(w, h, exc) ==
    IF w.handlers[h].triggered
    THEN Raise(w, Exc("RuntimeError", "Cannot trigger handler a second time"))
    ELSE IF w.handlers[h].exception_cb = NoCb
    THEN Raise(Trigger(w, h, "exception", exc), exc)
    ELSE Invoke(Trigger(w, h, "exception", exc), w.handlers[h].exception_cb, h, "exception", exc)

\* history: no EventList: start response received
NoStart == [on |-> FALSE, headers |-> EmptyMap, events |-> <<>>]

\* results = [None] * n: None where a result may stand
NoResult == [none |-> TRUE]

\* An _on_result that forgets the _triggered test of the aggregate.
OnResultNoTriggerTest(w, cb, res) ==
    LET c == w.closures[cb.c]
        w1 == [w EXCEPT !.closures[cb.c].pending = @ \ {cb.i},
                        !.closures[cb.c].results[cb.i] = res,
                        !.closures[cb.c].done = Append(@, cb.i)]
    IN  IF cb.i \notin c.pending
        THEN Raise(w, Exc("KeyError", "pending"))
        ELSE IF w1.closures[cb.c].pending = {}
        THEN set_result(w1, c.result_handler, [results |-> w1.closures[cb.c].results])
        ELSE w1

\* functools.partial(_on_result, i)(res); the children are numbered from 1,
\* and the list handed to set_result is wrapped in a record
_on_result(w, cb, res) ==
    LET c == w.closures[cb.c]
        w1 == [w EXCEPT !.closures[cb.c].pending = @ \ {cb.i},
                        !.closures[cb.c].results[cb.i] = res,
                        !.closures[cb.c].done = Append(@, cb.i)]
    IN  IF w.handlers[c.result_handler].triggered
        THEN w
        ELSE IF cb.i \notin c.pending
        THEN Raise(w, Exc("KeyError", "pending"))
        ELSE IF w1.closures[cb.c].pending = {}
        THEN set_result(w1, c.result_handler, [results |-> w1.closures[cb.c].results])
        ELSE w1

_on_exception(w, cb, exc) ==
    IF w.handlers[w.closures[cb.c].result_handler].triggered
    THEN w
    ELSE set_exception(w, w.closures[cb.c].result_handler, exc)

\* for i, handler in enumerate(handlers): handler.on_result = ...;
\* handler.on_exception = ..., from the i-th child on
RECURSIVE BindChildren(_, _, _, _)
BindChildren(w, c, children, i) ==
    IF i > Len(children) \/ Raised(w) THEN w
    ELSE LET w1 == set_on_result(w, children[i], [k |-> "_on_result", c |-> c, i |-> i])
         IN  IF Raised(w1) THEN w1
             ELSE BindChildren(set_on_exception(w1, children[i], [k |-> "_on_exception", c |-> c]),
                               c, children, i + 1)

\* Handler.aggregate(children): the new Handler is the last of the heap
aggregate(w, children) ==
    LET result_handler == Len(w.handlers) + 1
        c == Len(w.closures) + 1
        n == Len(children)
        w1 == [w EXCEPT !.handlers = Append(@, NewHandler),
                        !.started = Append(@, NoStart),
                        !.closures = Append(@, [result_handler |-> result_handler,
                                                pending |-> 1..n,
                                                results |-> [i \in 1..n |-> NoResult],
                                                done |-> <<>>])]
    IN  BindChildren(w1, c, children, 1)

\* handler.cancel(): the class defines on_result, on_exception, set_result,
\* set_exception and aggregate, and an instance holds nothing else but
\* _action_id; the attribute lookup fails.
cancel(w, h) == Raise(w, Exc("AttributeError", "cancel"))

---------------------------------------------------------------------------
(* obelus/ami/protocol.py: AMIProtocol, the multiplexer.                   *)

\* Response(type, headers, payload), Event(name, headers),
\* EventList(headers, events)
Response(type, headers, payload) == [type |-> type, headers |-> headers, payload |-> payload]

Event(name, headers) == [name |-> name, headers |-> headers]

EventList(headers, events) == [headers |-> headers, events |-> events]

\* send_action(name, headers, variables): variables is a sequence of
\* <<key, value>> pairs; '='.join([key, value]) is the atoms <<key, "=", value>>.
VarsList(headers, variables) ==
    HGet(headers, "Variable", <<>>)
        \o [i \in 1..Len(variables) |-> <<variables[i][1], "=", variables[i][2]>>]

\* _next_action_id is the supplied = FALSE branch: a = self._action_id;
\* self._action_id = a + 1; return str(a).
send_action(w, name, headers, variables) ==
    LET h0 == IF Len(variables) > 0 THEN Put(headers, "Variable", VarsList(headers, variables))
                                    ELSE headers
        h1 == Put(h0, "Action", name)
        supplied == "ActionID" \in DOMAIN h1
        aid == IF supplied THEN h1["ActionID"] ELSE IntStr(w.action_id)
        w1 == IF supplied THEN w ELSE [w EXCEPT !.action_id = @ + 1]
        h2 == Put(h1, "ActionID", aid)
        w2 == Emit(w1, [e |-> "write", message |-> h2])
        handler == Len(w.handlers) + 1
    IN  [w2 EXCEPT !.handlers = Append(@, [NewHandler EXCEPT !.action_id = aid]),
                   !.started = Append(@, NoStart),
                   !.actions = Put(@, aid, handler)]

register_event_handler(w, name, func) ==
    IF name \in DOMAIN w.event_handlers
    THEN Raise(w, Exc("KeyError", "Handler already registered"))
    ELSE [w EXCEPT !.event_handlers = Put(@, name, func)]

unregister_event_handler(w, name) ==
    IF name \notin DOMAIN w.event_handlers
    THEN Raise(w, Exc("KeyError", name))
    ELSE [w EXCEPT !.event_handlers = Del(@, name)]

_handle_event_list_start(w, resp, action_id, handler) ==
    IF action_id \in DOMAIN w.event_lists
    THEN Log(w, "error", "new EventList for ongoing event list")
    ELSE [w EXCEPT !.event_lists = Put(@, action_id, EventList(resp.headers, <<>>))]

\* The event handler of the Async AGI executor, defined further down.
RECURSIVE _asyncagi_event_received(_, _)

\* The event handlers of the CallManager (bound methods), defined further
\* down: the method named k called with the event.
RECURSIVE CallManagerMethod(_, _, _)

\* unhandled_event_received is the except branch; handler(event) is a user's
\* callable or the bound method of an executor.
_dispatch_event(w, event) ==
    IF event.name \in DOMAIN w.event_handlers
    THEN LET w1 == Emit(w, [e |-> "handler", name |-> event.name, event |-> event])
         IN  IF w.event_handlers[event.name].k = "_asyncagi_event_received"
             THEN _asyncagi_event_received(w1, event)
             ELSE IF w.event_handlers[event.name].k = "CallManager"
             THEN CallManagerMethod(w1, w.event_handlers[event.name].cmd, event)
             ELSE w1
    ELSE Emit(w, [e |-> "unhandled", name |-> event.name, event |-> event])

\* An event_received that fires the token on any event of the list.
EventReceivedEager(w, event) ==
    LET action_id == HGet(event.headers, "ActionID", None)
    IN  IF action_id \in DOMAIN w.actions /\ action_id \in DOMAIN w.event_lists
        THEN LET event_list == w.event_lists[action_id]
                 w1 == [w EXCEPT !.event_lists = Del(@, action_id),
                                 !.actions = Del(@, action_id)]
             IN  set_result(w1, w.actions[action_id],
                            EventList(Update(event_list.headers, event.headers),
                                      event_list.events))
        ELSE _dispatch_event(w, event)

event_received(w, event) ==
    LET action_id == HGet(event.headers, "ActionID", None)
        falsy == action_id = None \/ action_id = ""
        \* action_handler = action_id and self._actions.get(action_id)
        has_handler == ~falsy /\ action_id \in DOMAIN w.actions
        \* event_list = action_handler and self._event_lists.get(action_id)
        event_type == Lower(HGet(event.headers, "EventList", ""))
    IN  IF action_id = ""
        THEN \* event_list is '', which "is not None": the branch is taken
             \* with a str in place of the EventList
             IF event_type = "complete"
             THEN IF "" \in DOMAIN w.event_lists
                  THEN Raise([w EXCEPT !.event_lists = Del(@, "")], Exc("KeyError", ""))
                  ELSE Raise(w, Exc("KeyError", ""))
             ELSE Raise(IF event_type # "" THEN Log(w, "warn", "Invalid EventList header in event")
                                           ELSE w,
                        Exc("AttributeError", "events"))
        ELSE IF has_handler /\ action_id \in DOMAIN w.event_lists
        THEN LET action_handler == w.actions[action_id]
                 event_list == w.event_lists[action_id]
             IN  IF event_type = "complete"
                 THEN LET w1 == [w EXCEPT !.event_lists = Del(@, action_id),
                                          !.actions = Del(@, action_id)]
                      IN  set_result(w1, action_handler,
                                     EventList(Update(event_list.headers, event.headers),
                                               event_list.events))
                 ELSE LET w1 == IF event_type # ""
                                THEN Log(w, "warn", "Invalid EventList header in event")
                                ELSE w
                      IN  [w1 EXCEPT !.event_lists[action_id].events = Append(@, event)]
        ELSE _dispatch_event(w, event)

\* A response_received that completes whichever token was registered first.
ResponseReceivedAnyToken(w, resp) ==
    IF DOMAIN w.actions = {}
    THEN w
    ELSE LET action_id == CHOOSE a \in DOMAIN w.actions :
                              \A b \in DOMAIN w.actions : w.actions[a] <= w.actions[b]
             handler == w.actions[action_id]
             w1 == [w EXCEPT !.actions = Del(@, action_id)]
         IN  IF resp.type = "error"
             THEN set_exception(w1, handler, Exc("ActionError", HGet(resp.headers, "Message", "")))
             ELSE set_result(w1, handler, resp)

\* A response_received that lets the KeyError of an unknown action id out.
ResponseReceivedRaisesOnStale(w, resp) ==
    LET action_id == resp.headers["ActionID"]
    IN  IF action_id \notin DOMAIN w.actions
        THEN Raise(w, Exc("KeyError", action_id))
        ELSE IF resp.type = "error"
        THEN set_exception([w EXCEPT !.actions = Del(@, action_id)], w.actions[action_id],
                           Exc("ActionError", HGet(resp.headers, "Message", "")))
        ELSE IF Lower(HGet(resp.headers, "EventList", "")) = "start"
        THEN _handle_event_list_start(w, resp, action_id, w.actions[action_id])
        ELSE set_result([w EXCEPT !.actions = Del(@, action_id)], w.actions[action_id], resp)

response_received(w, resp) ==
    IF "ActionID" \notin DOMAIN resp.headers
    THEN Raise(w, Exc("KeyError", "ActionID"))
    ELSE LET action_id == resp.headers["ActionID"]
         IN  IF action_id \notin DOMAIN w.actions
             THEN Log(w, "info", "Unknown or stale response")
             ELSE LET handler == w.actions[action_id]
                  IN  IF resp.type = "error"
                      THEN set_exception([w EXCEPT !.actions = Del(@, action_id)], handler,
                                         Exc("ActionError", HGet(resp.headers, "Message", "")))
                      ELSE IF resp.type \in {"success", "goodbye", "follows"}
                      THEN LET event_type == Lower(HGet(resp.headers, "EventList", ""))
                           IN  IF event_type = "start"
                               THEN _handle_event_list_start(w, resp, action_id, handler)
                               ELSE LET w1 == IF event_type # ""
                                              THEN Log(w, "warn", "Invalid EventList header in response")
                                              ELSE w
                                    IN  set_result([w1 EXCEPT !.actions = Del(@, action_id)],
                                                   handler, resp)
                      ELSE Raise(w, Exc("AssertionError", ""))

---------------------------------------------------------------------------
(* obelus/ami/protocol.py: BaseAMIProtocol, the AMI parser.                *)

\* The parser after reset().
NewParser ==
    [state |-> "init", headers |-> EmptyMap, resp_type |-> "", event_type |-> "",
     payload |-> <<>>]

\* A header name or value of the wire as the model's messages hold it: the
\* names and values of the model are one atom each, the empty string "".
Text(s) == IF s = <<>> THEN "" ELSE s[1]

\* key, sep, value = line.rstrip().partition(':'); ok is `sep` found
_split_key_value(line) ==
    LET pt == Partition(RStrip(line, Whitespace), ":")
    IN  [ok |-> pt[2] # <<>>, key |-> Text(pt[1]), value |-> Text(LStrip(pt[3], Whitespace))]

_response_types == {"success", "follows", "error", "goodbye"}

_headers_for_response_follows == {"Privilege", "ActionID"}

_response_follows_end == "--END COMMAND--"

_response_complete(w) ==
    response_received(w, Response(w.parser.resp_type, w.parser.headers, w.parser.payload))

_event_complete(w) ==
    event_received(w, Event(w.parser.event_type, w.parser.headers))

\* A header line inside a response or an event.
HeaderLine(w, line, follows) ==
    LET kv == _split_key_value(line)
    IN  IF ~kv.ok
        THEN Raise(w, Exc("ValueError", "Expected a key/value pair"))
        ELSE LET headers == Put(w.parser.headers, kv.key, kv.value)
             IN  [w EXCEPT !.parser.headers = headers,
                           !.parser.state =
                               IF /\ follows
                                  /\ w.parser.resp_type = "follows"
                                  /\ _headers_for_response_follows \subseteq DOMAIN headers
                               THEN "in-response-follows"
                               ELSE @]

\* proto.line_received(line)
ami_line_received(w, data) ==
    LET line == RStrip(data, {"\r", "\n"})
        state == w.parser.state
    IN  CASE state = "init" ->
                 IF Len(Split(LStrip(RStrip(line, Whitespace), Whitespace), "/")) # 2
                 THEN Raise(w, Exc("ValueError", "unpack"))
                 ELSE [w EXCEPT !.parser.state = "idle"]
          [] state = "idle" ->
                 IF line = <<>> THEN w
                 ELSE LET kv == _split_key_value(line)
                      IN  IF ~kv.ok
                          THEN Raise(w, Exc("ValueError", "Expected a key/value pair"))
                          ELSE IF kv.key = "Response"
                          THEN LET w1 == [w EXCEPT !.parser.state = "in-response",
                                                   !.parser.headers = EmptyMap,
                                                   !.parser.payload = <<>>,
                                                   !.parser.resp_type = Lower(kv.value)]
                               IN  IF w1.parser.resp_type \notin _response_types
                                   THEN Raise(w1, Exc("AttributeError", "resp_type"))
                                   ELSE w1
                          ELSE IF kv.key = "Event"
                          THEN [w EXCEPT !.parser.state = "in-event",
                                         !.parser.headers = EmptyMap,
                                         !.parser.event_type = kv.value]
                          ELSE Raise(w, Exc("ValueError", "Unexpected first message line"))
          [] state = "in-response" ->
                 IF line = <<>>
                 THEN _response_complete([w EXCEPT !.parser.state = "idle"])
                 ELSE HeaderLine(w, line, TRUE)
          [] state = "in-event" ->
                 IF line = <<>>
                 THEN _event_complete([w EXCEPT !.parser.state = "idle"])
                 ELSE HeaderLine(w, line, FALSE)
          [] state = "in-response-follows" ->
                 IF EndsWith(line, <<_response_follows_end>>)
                 THEN LET rest == SubSeq(line, 1, Len(line) - 1)
                          w1 == IF rest # <<>>
                                THEN [w EXCEPT !.parser.payload = Append(@, Text(rest))]
                                ELSE w
                      IN  _response_complete([w1 EXCEPT !.parser.state = "idle"])
                 ELSE [w EXCEPT !.parser.payload = Append(@, Text(line))]
          [] OTHER -> Raise(w, Exc("AssertionError", ""))

\* A header value of serialize_message: a str is [str |-> value], a list of
\* str is [list |-> values]; `if not isinstance(values, list): values = [values]`
ValuesOf(values) == IF "list" \in DOMAIN values THEN values.list ELSE <<values.str>>

\* The characters of a header name or value of the model.
Chars(text) == IF text = "" THEN <<>> ELSE <<text>>

\* lines.append(": ".join([key, value])) for the items from the i-th on;
\* headers.items() is the sequence of the map's items in insertion order.
RECURSIVE HeaderLines(_, _)
HeaderLines(items, i) ==
    IF i > Len(items) THEN <<>>
    ELSE [j \in 1..Len(ValuesOf(items[i].values)) |->
              Chars(items[i].key) \o <<":", " ">> \o Chars(ValuesOf(items[i].values)[j])]
             \o HeaderLines(items, i + 1)

\* self.eol.join(lines)
RECURSIVE EolJoin(_)
EolJoin(lines) ==
    IF lines = <<>> THEN <<>>
    ELSE IF Len(lines) = 1 THEN lines[1]
    ELSE lines[1] \o <<"\r", "\n">> \o EolJoin(Tail(lines))

\* proto.serialize_message(headers)
serialize_message(items) == EolJoin(HeaderLines(items, 1) \o << <<>>, <<>> >>)

---------------------------------------------------------------------------
(* obelus/agi/protocol.py: AGIProtocol, the AGI parser.                    *)

\* Response(result, variables, data) of the AGI module
AGIResponse(result, variables, data) == [result |-> result, variables |-> variables, data |-> data]

\* None where a string of atoms may stand
NoneStr == <<None>>

\* _agi_errors.get(code, AGIError)
_agi_errors(code) ==
    CASE code = 510 -> "AGIUnknownCommand"
      [] code = 511 -> "AGIForbiddenCommand"
      [] code = 520 -> "AGISyntaxError"
      [] OTHER -> "AGIError"

\* The channel of a parser: the ProtocolAGIChannel of script and Fast AGI,
\* or the _AsyncAGIChannel object chan of an executor.
ProtocolAGIChannel == [k |-> "ProtocolAGIChannel", chan |-> 0]

\* AGIProtocol(channel), after reset(), of a class with or without a
\* session_factory.  _resp_code None is 0, and _channel_id is None until an
\* executor sets it.  session is whether a session is bound; nestablished
\* and nfinished are history: how often its session_established and
\* session_finished were called; usage is history: the tail of the last
\* status line that opened a usage block.
NewProto(channel, session_factory) ==
    [state |-> "init", env |-> EmptyMap, argv |-> <<>>, resp_code |-> 0,
     resp_message |-> <<>>, commands |-> <<>>, channel |-> channel,
     channel_id |-> None, session_factory |-> session_factory,
     session |-> FALSE, nestablished |-> 0, nfinished |-> 0, usage |-> <<>>]

bind_session(w, p) ==
    IF w.protos[p].session_factory THEN [w EXCEPT !.protos[p].session = TRUE] ELSE w

\* unbind_session
unbind_session(w, p) ==
    IF w.protos[p].session
    THEN Emit([w EXCEPT !.protos[p].session = FALSE, !.protos[p].nfinished = @ + 1],
              [e |-> "session_finished", p |-> p])
    ELSE w

\* re.sub(r'([\\"])', r'\\\1', arg)
RECURSIVE EscapeChars(_)
EscapeChars(a) ==
    IF a = <<>> THEN <<>>
    ELSE (IF a[1] \in {"\\", "\""} THEN <<"\\", a[1]>> ELSE <<a[1]>>) \o EscapeChars(Tail(a))

\* An _escape_arg that quotes only the empty argument and those with a space
\* or a tab.
EscapeArgQuietly(arg) ==
    IF Contains(arg, "\\0") \/ Contains(arg, "\n")
    THEN NoneStr
    ELSE IF arg = <<>> \/ Contains(arg, " ") \/ Contains(arg, "\t")
    THEN <<"\"">> \o EscapeChars(arg) \o <<"\"">>
    ELSE EscapeChars(arg)

\* _escape_arg: the escaped argument, or <<None>> for the ValueError
_escape_arg(arg) ==
    IF Contains(arg, "\\0") \/ Contains(arg, "\n")
    THEN NoneStr
    ELSE LET escaped == EscapeChars(arg)
         IN  IF arg = <<>> \/ escaped # arg \/ Contains(arg, " ") \/ Contains(arg, "\t")
             THEN <<"\"">> \o escaped \o <<"\"">>
             ELSE escaped

\* _encode_command: the line, or <<None>> for the ValueError
_encode_command(args) ==
    IF Len(args) = 0 THEN NoneStr
    ELSE LET escaped == [i \in 1..Len(args) |-> _escape_arg(args[i])]
         IN  IF \E i \in 1..Len(args) : escaped[i] = NoneStr
             THEN NoneStr
             ELSE Join(escaped, " ") \o <<"\n">>

\* _parse_result, one part of line.split(' ') after the other.  err is the
\* ValueError of int(value, 10); result None is has_result FALSE.
RECURSIVE ParseParts(_, _)
ParseParts(parts, acc) ==
    IF parts = <<>> \/ acc.err THEN acc
    ELSE LET part == parts[1]
             rest == Tail(parts)
         IN  IF acc.in_data
             THEN IF EndsWith(part, <<")">>)
                  THEN ParseParts(rest, [acc EXCEPT !.data_parts = Append(@, SubSeq(part, 1, Len(part) - 1)),
                                                    !.in_data = FALSE])
                  ELSE ParseParts(rest, [acc EXCEPT !.data_parts = Append(@, part)])
             ELSE IF StartsWith(part, <<"(">>)
             THEN IF EndsWith(part, <<")">>)
                  THEN ParseParts(rest, [acc EXCEPT !.data_parts = Append(@, SubSeq(part, 2, Len(part) - 1))])
                  ELSE ParseParts(rest, [acc EXCEPT !.data_parts = Append(@, Tail(part)),
                                                    !.in_data = TRUE])
             ELSE LET pt == Partition(part, "=")
                  IN  IF pt[2] = <<>>
                      THEN ParseParts(rest, acc)
                      ELSE IF pt[1] = <<"result">>
                      THEN IF IsInt(pt[3])
                           THEN ParseParts(rest, [acc EXCEPT !.has_result = TRUE, !.result = ToInt(pt[3])])
                           ELSE [acc EXCEPT !.err = TRUE]
                      ELSE ParseParts(rest, [acc EXCEPT !.variables = Put(@, pt[1], pt[3])])

_parse_result(line) ==
    LET acc == ParseParts(Split(line, " "),
                          [has_result |-> FALSE, result |-> 0, variables |-> EmptyMap,
                           data_parts |-> <<>>, in_data |-> FALSE, err |-> FALSE])
    IN  [err |-> acc.err, has_result |-> acc.has_result, result |-> acc.result,
         variables |-> acc.variables,
         data |-> IF acc.data_parts # <<>> THEN Join(acc.data_parts, " ") ELSE NoneStr]

_push_command(w, p, command) ==
    [w EXCEPT !.protos[p].commands = Append(@, command),
              !.protos[p].state = "awaiting-response"]

\* _pop_command: the world after it; the command popped is the head of the
\* queue before.  popleft() on an empty deque raises IndexError.
_pop_command(w, p) ==
    IF w.protos[p].commands = <<>>
    THEN Raise(w, Exc("IndexError", "pop from an empty deque"))
    ELSE [w EXCEPT !.protos[p].commands = Tail(@),
                   !.protos[p].state = IF Tail(w.protos[p].commands) # <<>>
                                       THEN "awaiting-response" ELSE "idle"]

_got_successful_response(w, p, code, body) ==
    LET w1 == _pop_command(w, p)
        command == w.protos[p].commands[1]
        parsed == _parse_result(body)
    IN  IF Raised(w1) THEN w1
        ELSE IF parsed.err
        THEN Raise(w1, Exc("ValueError", "invalid literal for int() with base 10"))
        ELSE IF ~parsed.has_result
        THEN \* result < 0 with result None: None sorts before every number
             \* on Python 2, and is unorderable on Python 3
             IF w.python = 2
             THEN set_exception(w1, command, Exc("AGICommandFailure", body))
             ELSE Raise(w1, Exc("TypeError", "'<' not supported between NoneType and int"))
        ELSE IF parsed.result < 0
        THEN set_exception(w1, command, Exc("AGICommandFailure", body))
        ELSE set_result(w1, command, AGIResponse(parsed.result, parsed.variables, parsed.data))

_got_error_response(w, p, code, message) ==
    LET w1 == _pop_command(w, p)
        command == w.protos[p].commands[1]
    IN  IF Raised(w1) THEN w1
        ELSE set_exception(w1, command, Exc(_agi_errors(code), message))

\* AGIProtocol.send_command, defined further down.
RECURSIVE send_command(_, _, _)

\* session._bind_coroutine_handler(gen, handler), gen standing at its
\* yield number `gen`
_bind_coroutine_handler(w, p, gen, handler) ==
    IF Raised(w) THEN w
    ELSE [w EXCEPT !.handlers[handler].result_cb =
                       [k |-> "_on_coroutine_result", proto |-> p, gen |-> gen, is_success |-> TRUE],
                   !.handlers[handler].exception_cb =
                       [k |-> "_on_coroutine_result", proto |-> p, gen |-> gen, is_success |-> FALSE]]

\* The finally clause of example_commands, on the way out with exception
\* exc, or with NoExc for a return: self.proto.transport.close(), where
\* connection_made alone sets transport, and the executor does not call it
\* on the parsers it makes.
ExampleFinally(w, p, exc) ==
    IF w.protos[p].channel.k = "ProtocolAGIChannel"
    THEN Raise(Emit(w, [e |-> "close", p |-> p]), exc)
    ELSE Raise(w, Exc("AttributeError", "transport"))

\* resp = yield self.proto.send_command(args): the generator runs to its
\* yield number `gen`, and its caller binds itself to the token it yielded.
Yielded(w, p, gen, handler) ==
    IF Raised(w) THEN ExampleFinally(w, p, w.exc)
    ELSE _bind_coroutine_handler(w, p, gen, handler)

YieldCommand(w, p, gen, args) ==
    Yielded(send_command(w, p, args), p, gen, Len(w.handlers) + 1)

\* CLISession.example_commands resumed at its yield number `gen` by
\* gen.send(val) or gen.throw(val)
example_commands(w, p, gen, is_success, val) ==
    IF ~is_success THEN ExampleFinally(w, p, val)
    ELSE IF gen = 1
    THEN YieldCommand(Log(w, "info", "Channel status"), p, 2, <<<<"hangup">>>>)
    ELSE ExampleFinally(Log(w, "info", "Hangup result"), p, NoExc)

\* session.run_coroutine(self.example_commands())
run_coroutine(w, p) == YieldCommand(w, p, 1, <<<<"channel">>, <<"status">>>>)

\* session.session_established(): a method that does nothing for a plain
\* session, and CLISession's when the parser is a CLIProtocol
session_established(w, p) ==
    IF w.protocol_factory = "CLIProtocol"
    THEN run_coroutine(Log(Emit([w EXCEPT !.protos[p].nestablished = @ + 1],
                                [e |-> "session_established", p |-> p]),
                           "info", "AGI session established"), p)
    ELSE Emit([w EXCEPT !.protos[p].nestablished = @ + 1],
              [e |-> "session_established", p |-> p])

\* line_received in state init: one line of the AGI environment
line_received_init(w, p, line) ==
    LET proto == w.protos[p]
        l == RStrip(line, {"\r", "\n"})
        pt == Partition(RStrip(l, Whitespace), ":")
        k == pt[1]
        v == LStrip(pt[3], Whitespace)
        agi_var == Tail(k)
    IN  IF l = <<>>
        THEN LET w1 == Log([w EXCEPT !.protos[p].state = "idle"], "info", "Got AGI variables")
             IN  IF proto.session THEN session_established(w1, p) ELSE w1
        ELSE IF pt[2] = <<>>
        THEN Raise(w, Exc("ValueError", "Expected a key/value pair"))
        ELSE IF ~StartsWith(k, <<"agi_">>)
        THEN Raise(w, Exc("ValueError", "Invalid AGI variable"))
        ELSE IF /\ StartsWith(agi_var, <<"arg_">>)
                /\ IsInt(Tail(agi_var))
                /\ ToInt(Tail(agi_var)) = Len(proto.argv) + 1
        THEN [w EXCEPT !.protos[p].argv = Append(@, v)]
        ELSE LET w1 == IF agi_var \in DOMAIN proto.env
                       THEN Log(w, "warning", "Duplicate value for AGI variable")
                       ELSE w
             IN  [w1 EXCEPT !.protos[p].env = Put(@, agi_var, v)]

\* line_received in state idle
line_received_idle(w, p, line) ==
    IF RStrip(LStrip(line, Whitespace), Whitespace) # <<>>
    THEN Log(w, "warning", "Unexpected line received while idle")
    ELSE w

\* line_received in state awaiting-response: the status line
line_received_awaiting(w, p, line) ==
    IF Len(line) < 4
    THEN Raise(w, Exc("IndexError", "string index out of range"))
    ELSE IF line[4] \notin {" ", "-"}
    THEN Raise(w, Exc("ValueError", "Invalid response line"))
    ELSE IF ~IsInt(UpTo(line, 3))
    THEN Raise(w, Exc("ValueError", "invalid literal for int() with base 10"))
    ELSE LET code == ToInt(UpTo(line, 3))
             tail == From(line, 4)
         IN  IF ~(200 <= code /\ code < 600)
             THEN Raise(w, Exc("ValueError", "Invalid response code"))
             ELSE IF code < 300
             THEN _got_successful_response(w, p, code, RStrip(tail, Whitespace))
             ELSE IF code = 520 /\ Contains(tail, "follows")
             THEN [w EXCEPT !.protos[p].resp_code = code,
                            !.protos[p].resp_message = tail,
                            !.protos[p].state = "in-response"]
             ELSE _got_error_response(w, p, code, RStrip(tail, Whitespace))

\* "520 End of proper usage.\n"
EndOfUsage == <<"5", "2", "0", " ", "End of proper usage.", "\n">>

\* A state in-response that takes every line for the last of the block.
InResponseEndsAtOnce(w, p, line) ==
    _got_error_response(w, p, w.protos[p].resp_code, w.protos[p].resp_message)

\* line_received in state in-response: the lines of a usage block
line_received_in_response(w, p, line) ==
    LET proto == w.protos[p]
    IN  IF StartsWith(line, CodeStr(proto.resp_code) \o <<" ">>)
        THEN LET w1 == _got_error_response(w, p, proto.resp_code, proto.resp_message)
             IN  IF Raised(w1) THEN w1
                 ELSE [w1 EXCEPT !.protos[p].resp_code = 0,
                                 !.protos[p].resp_message = NoneStr]
        ELSE IF EndsWith(line, EndOfUsage)
        THEN LET w1 == [w EXCEPT !.protos[p].resp_message = @ \o line]
                 w2 == _got_error_response(w1, p, proto.resp_code, w1.protos[p].resp_message)
             IN  IF Raised(w2) THEN w2
                 ELSE [w2 EXCEPT !.protos[p].resp_code = 0,
                                 !.protos[p].resp_message = NoneStr]
        ELSE [w EXCEPT !.protos[p].resp_message = @ \o line]

line_received(w, p, line) ==
    CASE w.protos[p].state = "init" -> line_received_init(w, p, line)
      [] w.protos[p].state = "idle" -> line_received_idle(w, p, line)
      [] w.protos[p].state = "awaiting-response" -> line_received_awaiting(w, p, line)
      [] w.protos[p].state = "in-response" -> line_received_in_response(w, p, line)
      [] OTHER -> Raise(w, Exc("AssertionError", ""))

\* proto.line_received(line), with the history of the usage block it opens
WithUsage(w1, state, p, line) ==
    IF state = "awaiting-response" /\ w1.protos[p].state = "in-response"
    THEN [w1 EXCEPT !.protos[p].usage = From(line, 4)]
    ELSE w1

Feed(w, p, line) == WithUsage(line_received(w, p, line), w.protos[p].state, p, line)

\* ProtocolAGIChannel.send_command_line: handler = Handler(); write; push
ProtocolSendCommandLine(w, p, line) ==
    LET handler == Len(w.handlers) + 1
        w1 == [w EXCEPT !.handlers = Append(@, NewHandler), !.started = Append(@, NoStart)]
    IN  _push_command(Emit(w1, [e |-> "write", data |-> line]), p, handler)

\* "%s-%s" % (command_id, self._command_id_stem)
CommandIdStr(n) == <<"1-stem", "2-stem", "3-stem", "4-stem", "5-stem">>[n]

\* AsyncAGIExecutor._send_command_line(proto, line), reached through
\* _AsyncAGIChannel.send_command_line, which reads self.proto
_send_command_line(w, p, line) ==
    LET c == w.protos[p].channel.chan
        handler == Len(w.handlers) + 1
        action_handler == Len(w.handlers) + 2
        command_id == CommandIdStr(w.command_id)
        headers == [Command |-> RStrip(line, Whitespace), CommandID |-> command_id,
                    Channel |-> w.protos[p].channel_id]
        w1 == [w EXCEPT !.handlers = Append(@, NewHandler), !.started = Append(@, NoStart),
                        !.command_id = @ + 1]
        w2 == send_action(w1, "AGI", headers, <<>>)
        w3 == set_on_result(w2, action_handler,
                            [k |-> "_on_action_success", chan |-> c, cmd |-> command_id, h |-> handler])
    IN  IF w.chans[c].proto = 0
        THEN Raise(w, Exc("AttributeError", "proto"))
        ELSE IF ~w.ami
        THEN Raise(w, Exc("ValueError", "Operation on non-bound executor"))
        ELSE set_on_exception(w3, action_handler,
                              [k |-> "_on_action_failure", chan |-> c, cmd |-> command_id, h |-> handler])

\* self.channel.send_command_line(line)
send_command_line(w, p, line) ==
    IF w.protos[p].channel.k = "ProtocolAGIChannel"
    THEN ProtocolSendCommandLine(w, p, line)
    ELSE _send_command_line(w, p, line)

\* A send_command that does not look at the state.
SendCommandAnyState(w, p, args) ==
    LET line == _encode_command(args)
    IN  IF line = NoneStr
        THEN Raise(w, Exc("ValueError", "Forbidden characters in AGI argument"))
        ELSE ProtocolSendCommandLine(w, p, line)

send_command(w, p, args) ==
    IF w.protos[p].state # "idle"
    THEN Raise(w, Exc("RuntimeError", "Can only send AGI command when idle"))
    ELSE IF w.protos[p].commands # <<>>
    THEN Raise(w, Exc("AssertionError", ""))
    ELSE LET line == _encode_command(args)
         IN  IF line = NoneStr
             THEN Raise(w, Exc("ValueError", IF Len(args) = 0
                                             THEN "Args sequence cannot be empty"
                                             ELSE "Forbidden characters in AGI argument"))
             ELSE LET w1 == send_command_line(w, p, line)
                  IN  IF Raised(w1) THEN w1
                      ELSE [w1 EXCEPT !.protos[p].state = "awaiting-response"]

_on_coroutine_result(w, cb, val) ==
    example_commands(w, cb.proto, cb.gen, cb.is_success, val)

---------------------------------------------------------------------------
(* obelus/agi/asyncagi.py: AsyncAGIExecutor.                               *)

\* _AsyncAGIChannel(executor)
NewChannel == [commands |-> EmptyMap, proto |-> 0]

\* unquote_to_bytes on the escapes of the model
Unquote(s) ==
    [i \in 1..Len(s) |-> CASE s[i] = "%20" -> " "
                           [] s[i] = "%0A" -> "\n"
                           [] s[i] = "%3D" -> "="
                           [] s[i] = "%3A" -> ":"
                           [] OTHER -> s[i]]

\* bytes.splitlines(True): the lines with their ends, which are "\n", "\r"
\* and "\r\n"
RECURSIVE SplitLines(_)
SplitLines(s) ==
    IF s = <<>> THEN <<>>
    ELSE IF \E i \in 1..Len(s) : s[i] \in {"\n", "\r"}
    THEN LET i == CHOOSE k \in 1..Len(s) :
                      s[k] \in {"\n", "\r"} /\ \A j \in 1..(k - 1) : s[j] \notin {"\n", "\r"}
             e == IF s[i] = "\r" /\ i < Len(s) /\ s[i + 1] = "\n" THEN i + 1 ELSE i
         IN  <<SubSeq(s, 1, e)>> \o SplitLines(SubSeq(s, e + 1, Len(s)))
    ELSE <<s>>

\* for line in lines: proto.line_received(line)
RECURSIVE FeedLines(_, _, _)
FeedLines(w, p, lines) ==
    IF lines = <<>> \/ Raised(w) THEN w
    ELSE FeedLines(Feed(w, p, lines[1]), p, Tail(lines))

\* executor.bind(ami)
bind(w) ==
    IF w.ami
    THEN Raise(w, Exc("ValueError", "Executor already bound"))
    ELSE LET w1 == register_event_handler(w, "AsyncAGI",
                       [k |-> "_asyncagi_event_received", chan |-> 0, cmd |-> "", h |-> 0])
         IN  IF Raised(w1) THEN w1 ELSE [w1 EXCEPT !.ami = TRUE]

\* An unbind that does not call _check_bound.
UnbindUnchecked(w) == unregister_event_handler([w EXCEPT !.ami = FALSE], "AsyncAGI")

\* executor.unbind()
unbind(w) ==
    IF ~w.ami
    THEN Raise(w, Exc("ValueError", "Operation on non-bound executor"))
    ELSE unregister_event_handler([w EXCEPT !.ami = FALSE], "AsyncAGI")

\* An exec that looks the command id up in the maps of all the registered
\* channels, whatever the channel the event names.
AsyncagiExecAnyChannel(w, event) ==
    LET command_id == event.headers["CommandID"]
        holders == {x \in DOMAIN w.channels : command_id \in DOMAIN w.chans[w.channels[x]].commands}
    IN  IF holders = {}
        THEN Log(w, "warning", "AsyncAGI exec event for unknown command")
        ELSE LET c == w.channels[CHOOSE x \in holders : TRUE]
                 handler == w.chans[c].commands[command_id]
                 p == w.chans[c].proto
                 w1 == [w EXCEPT !.chans[c].commands = Del(@, command_id)]
             IN  FeedLines(_push_command(w1, p, handler), p,
                           SplitLines(Unquote(event.headers["Result"])))

\* An exec that, for a command id the channel does not know, gives up the
\* commands the channel does know.
AsyncagiExecForgets(w, event) ==
    LET channel_id == event.headers["Channel"]
    IN  IF channel_id \notin DOMAIN w.channels
        THEN Log(w, "warning", "AsyncAGI exec event for unknown channel")
        ELSE Log([w EXCEPT !.chans[w.channels[channel_id]].commands = EmptyMap],
                 "warning", "AsyncAGI exec event for unknown command")

\* _asyncagi_exec after the lines of Result went through the parser p, in
\* the world w3
AfterExecLines(w3, p) ==
    IF Raised(w3) THEN w3
    ELSE IF w3.protos[p].state # "idle"
    THEN Log(w3, "error", "Invalid AGI protocol state after AsyncAGI Exec")
    ELSE w3

_asyncagi_exec(w, event) ==
    LET channel_id == event.headers["Channel"]
        command_id == event.headers["CommandID"]
    IN  IF channel_id \notin DOMAIN w.channels
        THEN Log(w, "warning", "AsyncAGI exec event for unknown channel")
        ELSE LET c == w.channels[channel_id]
             IN  IF command_id \notin DOMAIN w.chans[c].commands
                 THEN Log(w, "warning", "AsyncAGI exec event for unknown command")
                 ELSE LET handler == w.chans[c].commands[command_id]
                          p == w.chans[c].proto
                          w1 == [w EXCEPT !.chans[c].commands = Del(@, command_id)]
                          w2 == _push_command(w1, p, handler)
                      IN  AfterExecLines(FeedLines(w2, p, SplitLines(Unquote(event.headers["Result"]))),
                                         p)

\* A start that registers the channel whatever the state of its parser.
AsyncagiStartAlwaysRegisters(w, event) ==
    LET channel_id == event.headers["Channel"]
        c == Len(w.chans) + 1
        p == Len(w.protos) + 1
        w1 == [w EXCEPT !.chans = Append(@, [NewChannel EXCEPT !.proto = p]),
                        !.protos = Append(@, [NewProto([k |-> "_AsyncAGIChannel", chan |-> c], TRUE)
                                                 EXCEPT !.channel_id = channel_id])]
        w2 == FeedLines(bind_session(w1, p), p, SplitLines(Unquote(event.headers["Env"])))
    IN  [w2 EXCEPT !.channels = Put(@, channel_id, c)]

\* The channel and the parser a start made are local to it: when it returns
\* without registering the channel, or raises, nothing refers to them any
\* more and they leave the heaps, unless a command was sent on the way,
\* whose callbacks hold the channel.
Dropped(w, w0) ==
    IF Len(w.handlers) = Len(w0.handlers)
    THEN [w EXCEPT !.chans = w0.chans, !.protos = w0.protos]
    ELSE w

\* _asyncagi_start after the lines of Env went through the parser p of
\* channel c, in the world w2, w being the world before the event
AfterStartLines(w2, w, c, p, channel_id) ==
    IF Raised(w2) THEN Dropped(w2, w)
    ELSE IF w2.protos[p].state # "idle"
    THEN Dropped(Log(w2, "error", "Invalid AGI protocol state after AsyncAGI Start"), w)
    ELSE [w2 EXCEPT !.channels = Put(@, channel_id, c)]

\* protocol_factory(channel) is an AGIProtocol subclass with a
\* session_factory, as the executor's callers configure it.
_asyncagi_start(w, event) ==
    LET channel_id == event.headers["Channel"]
    IN  IF channel_id \in DOMAIN w.channels
        THEN Log(w, "error", "AsyncAGI start event for bound channel")
        ELSE LET c == Len(w.chans) + 1
                 p == Len(w.protos) + 1
                 w1 == [w EXCEPT !.chans = Append(@, [NewChannel EXCEPT !.proto = p]),
                                 !.protos = Append(@, [NewProto([k |-> "_AsyncAGIChannel", chan |-> c], TRUE)
                                                          EXCEPT !.channel_id = channel_id])]
             IN  AfterStartLines(FeedLines(bind_session(w1, p), p,
                                           SplitLines(Unquote(event.headers["Env"]))),
                                 w, c, p, channel_id)

\* An end that finishes the session and keeps the channel registered.
AsyncagiEndKeepsChannel(w, event) ==
    LET channel_id == event.headers["Channel"]
    IN  IF channel_id \notin DOMAIN w.channels
        THEN Log(w, "warning", "AsyncAGI end event for unknown channel")
        ELSE unbind_session(w, w.chans[w.channels[channel_id]].proto)

_asyncagi_end(w, event) ==
    LET channel_id == event.headers["Channel"]
    IN  IF channel_id \notin DOMAIN w.channels
        THEN Log(w, "warning", "AsyncAGI end event for unknown channel")
        ELSE LET c == w.channels[channel_id]
                 w1 == unbind_session([w EXCEPT !.channels = Del(@, channel_id)], w.chans[c].proto)
             IN  IF Raised(w1) THEN w1 ELSE [w1 EXCEPT !.chans[c].proto = 0]

_asyncagi_event_received(w, event) ==
    LET subevent == event.headers["SubEvent"]
    IN  CASE subevent = "Start" -> _asyncagi_start(w, event)
          [] subevent = "Exec" -> _asyncagi_exec(w, event)
          [] subevent = "End" -> _asyncagi_end(w, event)
          [] OTHER -> Log(w, "warning", "Unknown AsyncAGI subevent received")

---------------------------------------------------------------------------
(* obelus/common.py: LineReceiver.                                         *)

\* LineReceiver(): the class attribute _chunks = None; lines is the list a
\* subclass's line_received appends to; fed and cuts are history.
NewLineReceiver ==
    [allocated |-> FALSE, chunks |-> <<>>, eat_lf |-> FALSE, lines |-> <<>>,
     fed |-> <<>>, cuts |-> {}]

\* data.endswith((b'\r', b'\n'))
EndsWithNewline(data) == data # <<>> /\ data[Len(data)] \in {"\r", "\n"}

\* b''.join(chunks)
RECURSIVE JoinChunks(_)
JoinChunks(chunks) == IF chunks = <<>> THEN <<>> ELSE chunks[1] \o JoinChunks(Tail(chunks))

\* A data_received that swallows no line feed.
DataReceivedKeepsLf(lr, data) ==
    LET parts == SplitLines(JoinChunks(lr.chunks) \o data)
        whole == SelectSeq(parts, EndsWithNewline)
    IN  [lr EXCEPT !.allocated = TRUE,
                   !.lines = @ \o whole,
                   !.chunks = IF Len(whole) < Len(parts) THEN <<parts[Len(parts)]>> ELSE <<>>]

\* A data_received that keeps a line ending in CR until the next byte.
DataReceivedWaitsAfterCr(lr, data) ==
    LET parts == SplitLines(JoinChunks(lr.chunks) \o data)
        held == parts # <<>> /\ ~EndsWith(parts[Len(parts)], <<"\n">>)
        whole == IF held THEN SubSeq(parts, 1, Len(parts) - 1) ELSE parts
    IN  [lr EXCEPT !.allocated = TRUE,
                   !.lines = @ \o whole,
                   !.chunks = IF held THEN <<parts[Len(parts)]>> ELSE <<>>]

\* receiver.data_received(data)
data_received(lr, data) ==
    LET lr0 == IF ~lr.allocated
               THEN [lr EXCEPT !.allocated = TRUE, !.chunks = <<>>, !.eat_lf = FALSE]
               ELSE lr
        buffered == lr0.chunks # <<>>
        \* `data` as the else branch rebinds it
        data1 == IF ~buffered /\ lr0.eat_lf /\ StartsWith(data, <<"\n">>) THEN Tail(data) ELSE data
        lr1 == IF buffered THEN lr0 ELSE [lr0 EXCEPT !.eat_lf = FALSE]
        chunks == IF buffered THEN SubSeq(lr0.chunks, 1, Len(lr0.chunks) - 1) ELSE <<>>
        parts == IF buffered
                 THEN SplitLines(lr0.chunks[Len(lr0.chunks)] \o data)
                 ELSE SplitLines(data1)
    IN  IF Len(parts) <= 1 /\ ~EndsWithNewline(data1)
        THEN [lr1 EXCEPT !.chunks = Append(@, data1)]
        ELSE LET first_part == parts[1]
                 line == JoinChunks(chunks) \o first_part
                 last_part == parts[Len(parts)]
                 complete == Len(parts) > 1 /\ EndsWithNewline(last_part)
                 last_line == IF Len(parts) > 1
                              THEN IF complete THEN last_part ELSE <<>>
                              ELSE line
                 emitted == <<line>>
                                \o (IF Len(parts) > 1 THEN SubSeq(parts, 2, Len(parts) - 1) ELSE <<>>)
                                \o (IF complete THEN <<last_part>> ELSE <<>>)
             IN  [lr1 EXCEPT !.lines = @ \o emitted,
                             !.chunks = IF Len(parts) > 1 /\ ~complete THEN <<last_part>> ELSE <<>>,
                             !.eat_lf = IF EndsWith(last_line, <<"\r">>) THEN TRUE ELSE @]

\* The receiver as data_received has it when it calls line_received for
\* the first line: _chunks allocated and, with nothing buffered, _eat_lf
\* cleared.
Entered(lr) ==
    LET lr0 == IF ~lr.allocated
               THEN [lr EXCEPT !.allocated = TRUE, !.chunks = <<>>, !.eat_lf = FALSE]
               ELSE lr
    IN  IF lr0.chunks # <<>> THEN lr0 ELSE [lr0 EXCEPT !.eat_lf = FALSE]

\* self.line_received(p) for the lines from the i-th on, up to the first one
\* that raises: the world, and the index of the last line handed over.
RECURSIVE HandLines(_, _, _)
HandNext(w1, lines, i) ==
    IF Raised(w1) THEN [w |-> w1, last |-> i] ELSE HandLines(w1, lines, i + 1)

HandLines(w, lines, i) ==
    IF i > Len(lines) THEN [w |-> w, last |-> Len(lines)]
    ELSE HandNext(ami_line_received(w, lines[i]), lines, i)

\* The lines data_received passes to line_received, given the receiver after
\* a call in which none of them raises.
Emitted(lr, done) == SubSeq(done.lines, Len(lr.lines) + 1, Len(done.lines))

\* The receiver when data_received returns or raises: an exception of
\* line_received leaves data_received where it was raised, at the first line
\* before `self._chunks[:] = []`, at a later line after it, and always before
\* the incomplete last part is buffered and before _eat_lf is set.
Left(lr, done, fed) ==
    IF ~Raised(fed.w)
    THEN [fed.w EXCEPT !.receiver = done]
    ELSE [fed.w EXCEPT !.receiver =
              [Entered(lr) EXCEPT !.lines = lr.lines \o SubSeq(Emitted(lr, done), 1, fed.last),
                                  !.chunks = IF fed.last = 1 THEN @ ELSE <<>>]]

\* proto.data_received(data) on the AMI protocol: the lines go to the parser.
protocol_data_received(w, data) ==
    Left(w.receiver, data_received(w.receiver, data),
         HandLines(w, Emitted(w.receiver, data_received(w.receiver, data)), 1))

---------------------------------------------------------------------------
(* obelus/ami/calls.py: Call, CallManager.                                 *)

\* int(s, 10) on the strings of the model: the numerals have their value,
\* any other string raises ValueError.
Numerals == {"0", "4", "5", "6", "16", "21"}

IntOf(s) ==
    CASE s = "0" -> 0
      [] s = "4" -> 4
      [] s = "5" -> 5
      [] s = "6" -> 6
      [] s = "16" -> 16
      [] s = "21" -> 21

\* call._state = None, where the other values are the ints of Newstate
NoState == -1

\* call._last_hangup_cause: None, or the tuple (cause, cause_txt)
NoCause == [set |-> FALSE, cause |-> 0, txt |-> ""]

Cause(cause, txt) == [set |-> TRUE, cause |-> cause, txt |-> txt]

\* Call(): the class attributes, and what Call._bind adds.  nqueued,
\* nfailed and nended are history: how often call_queued, call_failed and
\* call_ended were called on the object; last_nonzero and first_zero are
\* history: the cause pair of the latest Hangup or SoftHangupRequest event
\* for a channel of the call with a non-zero Cause, and of the first one
\* with a zero Cause.
NewCall ==
    [bound |-> FALSE, call_id |-> None, action_id |-> None, state |-> NoState,
     state_desc |-> None, unique_ids |-> {}, outgoing |-> FALSE,
     last_hangup_cause |-> NoCause,
     nqueued |-> 0, nfailed |-> 0, nended |-> 0,
     last_nonzero |-> NoCause, first_zero |-> NoCause]

\* call._bind(manager, call_id, outgoing)
_bind(w, c, call_id, outgoing) ==
    [w EXCEPT !.call_objects[c] =
        [@ EXCEPT !.bound = TRUE, !.call_id = call_id, !.state = NoState,
                  !.state_desc = None, !.unique_ids = {}, !.outgoing = outgoing,
                  !.last_hangup_cause = NoCause]]

\* call.<name>(*args): a method the user overrides; it does not call back
\* into the manager.
CallCallback(w, c, name, args) ==
    Emit([w EXCEPT !.call_objects[c].nqueued = IF name = "call_queued" THEN @ + 1 ELSE @,
                   !.call_objects[c].nfailed = IF name = "call_failed" THEN @ + 1 ELSE @,
                   !.call_objects[c].nended = IF name = "call_ended" THEN @ + 1 ELSE @],
         [e |-> "callback", call |-> c, name |-> name, args |-> args])

\* self._tracking_variable
TrackingVariable == "X_TRACKING"

\* The manager before CallManager(ami) has run.
NoManager ==
    [constructed |-> FALSE, call_id |-> 1, incoming_call_factory |-> FALSE,
     new_channels |-> EmptyMap, actions |-> EmptyMap, calls |-> EmptyMap,
     unique_ids |-> EmptyMap]

\* The bound method self.<name> as an event handler.
Method(name) == [k |-> "CallManager", chan |-> 0, cmd |-> name, h |-> 0]

RECURSIVE RegisterAll(_, _)
RegisterAll(w, pairs) ==
    IF pairs = <<>> \/ Raised(w) THEN w
    ELSE RegisterAll(register_event_handler(w, pairs[1][1], Method(pairs[1][2])), Tail(pairs))

setup_event_handlers(w) ==
    RegisterAll(w, <<<<"Newchannel", "on_new_channel">>,
                     <<"VarSet", "on_var_set">>,
                     <<"LocalBridge", "on_local_bridge">>,
                     <<"Dial", "on_dial">>,
                     <<"Newstate", "on_new_state">>,
                     <<"SoftHangupRequest", "on_soft_hangup_request">>,
                     <<"Hangup", "on_hangup">>,
                     <<"OriginateResponse", "on_originate_response">>>>)

\* CallManager(ami)
NewManager(w) ==
    setup_event_handlers([w EXCEPT !.manager = [NoManager EXCEPT !.constructed = TRUE]])

\* The values of a dict.
Range(m) == {m[x] : x \in DOMAIN m}

queued_calls(w) == {c \in Range(w.manager.calls) : w.call_objects[c].outgoing}

tracked_calls(w) == Range(w.manager.calls) \ Range(w.manager.actions)

\* listen_for_incoming_calls(call_factory) with a callable
listen_for_incoming_calls(w) == [w EXCEPT !.manager.incoming_call_factory = TRUE]

\* originate(call, headers, variables) with the Call object c
originate(w, c, headers, variables) ==
    IF w.call_objects[c].bound
    THEN Raise(w, Exc("ValueError", "cannot reuse Call instance, need a new one"))
    ELSE LET call_id == IntStr(w.manager.call_id)
             w1 == [w EXCEPT !.manager.call_id = @ + 1]
             w2 == send_action(w1, "Originate", headers,
                               variables \o <<<<TrackingVariable, call_id>>>>)
             a == Len(w.handlers) + 1
             w3 == _bind(w2, c, call_id, TRUE)
             w4 == set_on_result(w3, a, [k |-> "_call_queued", chan |-> 0, cmd |-> call_id, h |-> c])
         IN  set_on_exception(w4, a, [k |-> "_call_failed", chan |-> 0, cmd |-> call_id, h |-> c])

\* A _call_queued that leaves the call out of the map of untracked calls.
CallQueuedUnregistered(w, cb, resp) ==
    CallCallback([w EXCEPT !.call_objects[cb.h].action_id = resp.headers["ActionID"],
                           !.manager.calls = Put(@, cb.cmd, cb.h)],
                 cb.h, "call_queued", <<>>)

\* def _call_queued(resp), closed over call and call_id
_call_queued(w, cb, resp) ==
    IF "ActionID" \notin DOMAIN resp.headers
    THEN Raise(w, Exc("KeyError", "ActionID"))
    ELSE LET action_id == resp.headers["ActionID"]
         IN  CallCallback([w EXCEPT !.call_objects[cb.h].action_id = action_id,
                                    !.manager.actions = Put(@, action_id, cb.h),
                                    !.manager.calls = Put(@, cb.cmd, cb.h)],
                          cb.h, "call_queued", <<>>)

\* def _call_failed(exc), closed over call
_call_failed(w, cb, exc) == CallCallback(w, cb.h, "call_failed", <<exc>>)

\* OriginateError(reason), with self.reason = int(reason, 10)
OriginateError(reason) ==
    [cls |-> "OriginateError", msg |-> "Originate failed with reason", reason |-> IntOf(reason)]

\* headers[key] for a key the event lacks
KeyError(w, key) == Raise(w, Exc("KeyError", key))

\* An on_originate_response that fails the call whatever the Response is.
OnOriginateResponseAnyResponse(w, event) ==
    LET h == event.headers
    IN  IF h["ActionID"] \notin DOMAIN w.manager.actions THEN w
        ELSE LET call == w.manager.actions[h["ActionID"]]
             IN  CallCallback([w EXCEPT !.manager.actions = Del(@, h["ActionID"]),
                                        !.manager.calls = Del(@, w.call_objects[call].call_id)],
                              call, "call_failed", <<OriginateError(h["Reason"])>>)

\* An on_originate_response that fails the call and keeps it in the maps.
OnOriginateResponseKeepsCall(w, event) ==
    LET h == event.headers
    IN  IF h["Response"] # "Failure" \/ h["ActionID"] \notin DOMAIN w.manager.actions THEN w
        ELSE CallCallback(w, w.manager.actions[h["ActionID"]], "call_failed",
                          <<OriginateError(h["Reason"])>>)

on_originate_response(w, event) ==
    LET h == event.headers
    IN  IF "Response" \notin DOMAIN h THEN KeyError(w, "Response")
        ELSE IF h["Response"] # "Failure" THEN w
        ELSE IF "ActionID" \notin DOMAIN h THEN KeyError(w, "ActionID")
        ELSE IF h["ActionID"] \notin DOMAIN w.manager.actions THEN w
        ELSE LET call == w.manager.actions[h["ActionID"]]
                 call_id == w.call_objects[call].call_id
                 w1 == [w EXCEPT !.manager.actions = Del(@, h["ActionID"])]
                 w2 == [w1 EXCEPT !.manager.calls = Del(@, call_id)]
             IN  IF call_id \notin DOMAIN w.manager.calls THEN KeyError(w1, call_id)
                 ELSE IF "Reason" \notin DOMAIN h THEN KeyError(w2, "Reason")
                 ELSE IF h["Reason"] \notin Numerals
                 THEN Raise(w2, Exc("ValueError", "invalid literal for int() with base 10"))
                 ELSE CallCallback(w2, call, "call_failed", <<OriginateError(h["Reason"])>>)

\* Returns the world and the call made, 0 for None.  The factory returns
\* a new Call object.
_candidate_incoming_call(w, unique_id) ==
    LET w1 == [w EXCEPT !.manager.new_channels = Del(@, unique_id)]
    IN  IF unique_id \in DOMAIN w.manager.new_channels /\ w.manager.incoming_call_factory
        THEN LET call == Len(w.call_objects) + 1
                 call_id == IntStr(w.manager.call_id)
                 w2 == Emit([w1 EXCEPT !.call_objects = Append(@, NewCall)],
                            [e |-> "factory", headers |-> w.manager.new_channels[unique_id]])
                 w3 == _bind([w2 EXCEPT !.manager.call_id = @ + 1], call, call_id, FALSE)
             IN  [w |-> [w3 EXCEPT !.manager.calls = Put(@, call_id, call),
                                   !.call_objects[call].unique_ids = {unique_id},
                                   !.manager.unique_ids = Put(@, unique_id, call)],
                  call |-> call]
        ELSE [w |-> w1, call |-> 0]

\* An on_new_channel that records the Local/ channels too.
OnNewChannelRecordsLocal(w, event) ==
    [w EXCEPT !.manager.new_channels = Put(@, event.headers["Uniqueid"], event.headers)]

on_new_channel(w, event) ==
    LET h == event.headers
    IN  IF "Uniqueid" \notin DOMAIN h THEN KeyError(w, "Uniqueid")
        ELSE IF "Channel" \notin DOMAIN h THEN KeyError(w, "Channel")
        ELSE IF StartsWith(h["Channel"], <<"Local/">>)
        THEN Log(w, "debug", "Newchannel: local channel, ignoring")
        ELSE [w EXCEPT !.manager.new_channels = Put(@, h["Uniqueid"], h)]

\* An on_var_set that binds the channel whether or not the call is tracked.
OnVarSetAlwaysBinds(w, event) ==
    LET h == event.headers
    IN  IF h["Variable"] # TrackingVariable \/ h["Value"] \notin DOMAIN w.manager.calls THEN w
        ELSE LET call == w.manager.calls[h["Value"]]
             IN  [w EXCEPT !.manager.new_channels = Del(@, h["Uniqueid"]),
                           !.manager.actions = Del(@, w.call_objects[call].action_id),
                           !.call_objects[call].unique_ids = @ \cup {h["Uniqueid"]},
                           !.manager.unique_ids = Put(@, h["Uniqueid"], call)]

on_var_set(w, event) ==
    LET h == event.headers
    IN  IF "Variable" \notin DOMAIN h THEN KeyError(w, "Variable")
        ELSE IF h["Variable"] # TrackingVariable THEN w
        ELSE IF "Value" \notin DOMAIN h THEN KeyError(w, "Value")
        ELSE IF "Uniqueid" \notin DOMAIN h THEN KeyError(w, "Uniqueid")
        ELSE LET call_id == h["Value"]
                 unique_id == h["Uniqueid"]
                 w1 == [w EXCEPT !.manager.new_channels = Del(@, unique_id)]
             IN  IF call_id \notin DOMAIN w.manager.calls
                 THEN Log(w1, "error", "Got unknown call_id in SetVar")
                 ELSE LET call == w.manager.calls[call_id]
                          action_id == w.call_objects[call].action_id
                      IN  IF action_id \notin DOMAIN w.manager.actions
                          THEN Log(w1, "error", "Got duplicate SetVar for call")
                          ELSE IF "Channel" \notin DOMAIN h
                          THEN KeyError([w1 EXCEPT !.manager.actions = Del(@, action_id)], "Channel")
                          ELSE Log([w1 EXCEPT !.manager.actions = Del(@, action_id),
                                              !.call_objects[call].unique_ids = @ \cup {unique_id},
                                              !.manager.unique_ids = Put(@, unique_id, call)],
                                   "info", "Got UniqueID for call")

on_local_bridge(w, event) ==
    LET h == event.headers
    IN  IF "Uniqueid1" \notin DOMAIN h THEN KeyError(w, "Uniqueid1")
        ELSE IF h["Uniqueid1"] \notin DOMAIN w.manager.unique_ids
        THEN Log(w, "debug", "LocalBridge: unknown UniqueID, ignoring")
        ELSE IF "Uniqueid2" \notin DOMAIN h THEN KeyError(w, "Uniqueid2")
        ELSE LET call == w.manager.unique_ids[h["Uniqueid1"]]
                 id2 == h["Uniqueid2"]
             IN  IF id2 \in DOMAIN w.manager.unique_ids /\ w.manager.unique_ids[id2] # call
                 THEN Log(w, "error", "LocalBridge: UniqueID already bound to other call")
                 ELSE Log([w EXCEPT !.call_objects[call].unique_ids = @ \cup {id2},
                                    !.manager.unique_ids = Put(@, id2, call)],
                          "info", "LocalBridge: new related UniqueID for call")

\* An _update_hangup_cause that keeps the cause of the latest event.
UpdateHangupCauseLatest(w, call, headers) ==
    [w EXCEPT !.call_objects[call].last_hangup_cause =
                  Cause(IntOf(HGet(headers, "Cause", "0")), HGet(headers, "Cause-txt", ""))]

\* `if cause or not call._last_hangup_cause`: a tuple is true, None is not
_update_hangup_cause(w, call, headers) ==
    IF HGet(headers, "Cause", "0") \notin Numerals
    THEN Raise(w, Exc("ValueError", "invalid literal for int() with base 10"))
    ELSE LET cause == IntOf(HGet(headers, "Cause", "0"))
         IN  IF cause # 0 \/ ~w.call_objects[call].last_hangup_cause.set
             THEN [w EXCEPT !.call_objects[call].last_hangup_cause =
                                Cause(cause, HGet(headers, "Cause-txt", ""))]
             ELSE w

on_soft_hangup_request(w, event) ==
    LET h == event.headers
    IN  IF "Uniqueid" \notin DOMAIN h THEN KeyError(w, "Uniqueid")
        ELSE IF h["Uniqueid"] \notin DOMAIN w.manager.unique_ids
        THEN Log(w, "debug", "SoftHangupRequest: unknown UniqueID, ignoring")
        ELSE _update_hangup_cause(w, w.manager.unique_ids[h["Uniqueid"]], h)

on_hangup(w, event) ==
    LET h == event.headers
    IN  IF "Uniqueid" \notin DOMAIN h THEN KeyError(w, "Uniqueid")
        ELSE LET unique_id == h["Uniqueid"]
                 w1 == [w EXCEPT !.manager.new_channels = Del(@, unique_id),
                                 !.manager.unique_ids = Del(@, unique_id)]
             IN  IF unique_id \notin DOMAIN w.manager.unique_ids
                 THEN Log(w1, "debug", "Hangup: unknown UniqueID, ignoring")
                 ELSE LET call == w.manager.unique_ids[unique_id]
                          w2 == [w1 EXCEPT !.call_objects[call].unique_ids = @ \ {unique_id}]
                          w3 == _update_hangup_cause(w2, call, h)
                          call_id == w.call_objects[call].call_id
                          last == w3.call_objects[call].last_hangup_cause
                      IN  IF unique_id \notin w.call_objects[call].unique_ids
                          THEN KeyError(w1, unique_id)
                          ELSE IF Raised(w3) THEN w3
                          ELSE IF w3.call_objects[call].unique_ids # {} THEN w3
                          ELSE IF call_id \notin DOMAIN w3.manager.calls THEN KeyError(w3, call_id)
                          ELSE CallCallback([w3 EXCEPT !.manager.calls = Del(@, call_id)],
                                            call, "call_ended", <<last.cause, last.txt>>)

on_dial(w, event) ==
    LET h == event.headers
    IN  IF "UniqueID" \notin DOMAIN h THEN KeyError(w, "UniqueID")
        ELSE IF h["UniqueID"] \notin DOMAIN w.manager.unique_ids
        THEN Log(w, "debug", "Dial: unknown UniqueID, ignoring")
        ELSE LET call == w.manager.unique_ids[h["UniqueID"]]
             IN  IF "SubEvent" \notin DOMAIN h THEN KeyError(w, "SubEvent")
                 ELSE IF h["SubEvent"] = "Begin"
                 THEN CallCallback(w, call, "dialing_started", <<>>)
                 ELSE IF h["SubEvent"] = "End"
                 THEN IF "DialStatus" \notin DOMAIN h THEN KeyError(w, "DialStatus")
                      ELSE CallCallback(w, call, "dialing_finished", <<h["DialStatus"]>>)
                 ELSE w

on_new_state(w, event) ==
    LET h == event.headers
    IN  IF "Uniqueid" \notin DOMAIN h THEN KeyError(w, "Uniqueid")
        ELSE LET unique_id == h["Uniqueid"]
                 known == unique_id \in DOMAIN w.manager.unique_ids
                 made == _candidate_incoming_call(w, unique_id)
                 call == IF known THEN w.manager.unique_ids[unique_id] ELSE made.call
                 w1 == IF known THEN w ELSE made.w
             IN  IF call = 0
                 THEN Log(w1, "debug", "Newstate: unknown UniqueID, ignoring")
                 ELSE IF "ChannelState" \notin DOMAIN h THEN KeyError(w1, "ChannelState")
                 ELSE IF h["ChannelState"] \notin Numerals
                 THEN Raise(w1, Exc("ValueError", "invalid literal for int() with base 10"))
                 ELSE IF "ChannelStateDesc" \notin DOMAIN h THEN KeyError(w1, "ChannelStateDesc")
                 ELSE LET state == IntOf(h["ChannelState"])
                          state_desc == h["ChannelStateDesc"]
                          w2 == IF state # w1.call_objects[call].state
                                THEN CallCallback([w1 EXCEPT !.call_objects[call].state = state],
                                                  call, "call_state_changed", <<state, state_desc>>)
                                ELSE w1
                      IN  [w2 EXCEPT !.call_objects[call].state_desc = state_desc]

\* handler(event) for the bound method of the manager named k
CallManagerMethod(w, k, event) ==
    CASE k = "on_new_channel" -> on_new_channel(w, event)
      [] k = "on_var_set" -> on_var_set(w, event)
      [] k = "on_local_bridge" -> on_local_bridge(w, event)
      [] k = "on_dial" -> on_dial(w, event)
      [] k = "on_new_state" -> on_new_state(w, event)
      [] k = "on_soft_hangup_request" -> on_soft_hangup_request(w, event)
      [] k = "on_hangup" -> on_hangup(w, event)
      [] k = "on_originate_response" -> on_originate_response(w, event)

---------------------------------------------------------------------------
(* The inputs of the model.                                                *)

\* The action ids the caller supplies, and those the server answers to.
SuppliedIds == {"X"}

AIDs == {"1", "X"}

\* What the server may send about action id aid.  The completing event is
\* spelt as Asterisk spells it ("Complete"), the opening response in lower
\* case; "Bogus" is an EventList value that is neither.
ResponsesFor(aid) ==
    {Response("success", [ActionID |-> aid], <<>>),
     Response("follows", [ActionID |-> aid], <<"payload">>),
     Response("goodbye", [ActionID |-> aid], <<>>),
     Response("error", [ActionID |-> aid, Message |-> "denied"], <<>>),
     Response("error", [ActionID |-> aid], <<>>),
     Response("success", [ActionID |-> aid, EventList |-> "start",
                          Message |-> "list will follow"], <<>>),
     Response("success", [ActionID |-> aid, EventList |-> "Bogus"], <<>>)}

Responses ==
    UNION {ResponsesFor(aid) : aid \in AIDs}
        \cup {Response("success", [Message |-> "no action id"], <<>>)}

EventNames == {"Hangup", "Foobar"}

EventsFor(aid) ==
    {Event("Hangup", [ActionID |-> aid]),
     Event("Foobar", [ActionID |-> aid, EventList |-> "Bogus"]),
     Event("Foobar", [ActionID |-> aid, EventList |-> "Complete"])}

Events ==
    UNION {EventsFor(aid) : aid \in AIDs \cup {""}}
        \cup {Event(n, EmptyMap) : n \in EventNames}

Values == {[v |-> 5], [v |-> 6]}

Exceptions == {Exc("ZeroDivisionError", "")}

\* The lines an AGI server may send.  The environment:
EnvLines ==
    {<<"agi_", "request", ":", " ", "x", "\n">>,
     <<"x", ":", " ", "a", "\n">>,
     <<"\n">>}

\* Status lines: the code, the separator, the tail.
StatusLine(code, sep, tail) == CodeStr(code) \o <<sep>> \o tail \o <<"\n">>

SuccessTails ==
    {<<"result", "=", "0">>,
     <<"result", "=", "1", " ", "(", "a", " ", "b", ")", " ", "endpos", "=", "5">>,
     <<"result", "=", "-", "1">>,
     <<"result", "=", "a">>,
     <<"a">>}

ErrorTails == {<<"Invalid command syntax.">>, <<"Invalid command syntax.", " ", "follows", ":">>}

StatusLines ==
    {StatusLine(200, " ", t) : t \in SuccessTails}
        \cup {StatusLine(c, " ", t) : c \in {500, 510, 511, 520}, t \in ErrorTails}
        \cup {StatusLine(520, "-", t) : t \in ErrorTails}
        \cup {StatusLine(200, "x", <<"a">>), StatusLine(100, " ", <<"a">>),
              StatusLine(600, " ", <<"a">>), <<"a", "b", "c", " ", "a", "\n">>}

\* The lines of a usage block: a line of text, the closing line, and the
\* closing line glued to a line of text for want of an end of line.
UsageLines == {<<"usage", "\n">>, EndOfUsage, <<"usage">> \o EndOfUsage}

Lines == EnvLines \cup StatusLines \cup UsageLines

\* The argument tuples of send_command.
ArgsTuples ==
    {<<<<"a">>>>, <<<<"a">>, <<"b", " ", "c">>>>, <<<<>>>>, <<<<"\"", "\\">>>>,
     <<<<"a", "\n">>>>, <<<<"a">>, <<"\\0">>>>, <<>>}

\* The characters of an argument: a letter, the whitespace of one line, the
\* two characters that are escaped, and the two that are forbidden.
ArgChars == {"a", " ", "\t", "\r", "\\", "\"", "\n", "\\0"}

\* The arguments of at most n characters.
ArgStrings(n) == UNION {[1..k -> ArgChars] : k \in 0..n}

\* Argument tuples for the escaping: one argument of at most MaxArgLen
\* characters, or two of at most one character.
EscapeTuples ==
    {<<a>> : a \in ArgStrings(MaxArgLen)}
        \cup {<<a, b>> : a \in ArgStrings(1), b \in ArgStrings(1)}

\* What the AMI server may send to an Async AGI executor.  The channels:
ChannelIds == {"c1", "c2"}

\* The Env header of a Start event, percent-encoded: a well-formed
\* environment, one that lacks the closing blank line, and one with a line
\* that is no AGI variable.
GoodEnv == <<"agi_", "request", "%3A", "%20", "x", "%0A", "%0A">>

EnvBlocks ==
    {GoodEnv,
     <<"agi_", "request", "%3A", "%20", "x", "%0A">>,
     <<"x", "%3A", "%20", "a", "%0A", "%0A">>}

\* The Result header of an Exec event, percent-encoded.
ResultBlocks ==
    {<<"2", "0", "0", "%20", "result", "%3D", "0", "%0A">>,
     <<"2", "0", "0", "%20", "result", "%3D", "-", "1", "%0A">>,
     <<"2", "0", "0", "%20", "result", "%3D", "a", "%0A">>,
     <<"2", "0", "0", "%20", "a", "%0A">>,
     <<"5", "1", "0", "%20", "Invalid or unknown command", "%0A">>,
     <<"5", "2", "0", "-", "Invalid command syntax.", "%20", "follows", ":", "%0A",
       "usage", "%0A", "5", "2", "0", "%20", "End of proper usage.", "%0A">>,
     <<"5", "2", "0", "-", "Invalid command syntax.", "%20", "follows", ":", "%0A">>}

CommandIds == {CommandIdStr(n) : n \in 1..MaxAsyncCommands}

AsyncEvents ==
    {Event("AsyncAGI", [SubEvent |-> "Start", Channel |-> ch, Env |-> env]) :
         ch \in ChannelIds, env \in EnvBlocks}
        \cup {Event("AsyncAGI", [SubEvent |-> "Exec", Channel |-> ch, CommandID |-> cmd,
                                 Result |-> res]) :
                  ch \in ChannelIds, cmd \in CommandIds, res \in ResultBlocks}
        \cup {Event("AsyncAGI", [SubEvent |-> "End", Channel |-> ch]) : ch \in ChannelIds}

\* The answers to the AGI actions of the executor.
AsyncResponses ==
    UNION {{Response("success", [ActionID |-> IntStr(n), Message |-> "Added AGI command to queue"], <<>>),
            Response("error", [ActionID |-> IntStr(n), Message |-> "denied"], <<>>)} :
               n \in 1..MaxAsyncCommands}

\* The headers the tests originate with.
OriginateHeaders == [Channel |-> <<"Local/", "6004">>, Context |-> "default", Exten |-> "6004"]

\* What the AMI server may send to a multiplexer with a CallManager.  The
\* channels' unique ids:
UniqueIds == {"U1", "U2"}

\* Cause and Cause-txt of a Hangup or SoftHangupRequest event.
Causes ==
    {<<"0", "Unknown">>, <<"0", "Hungup">>, <<"16", "Normal Clearing">>, <<"21", "Call Rejected">>}

\* The ids of the calls and of their Originate actions.
CallIds == {IntStr(n) : n \in 1..MaxCalls}

CallResponses ==
    UNION {{Response("success", [ActionID |-> aid, Message |-> "Originate successfully queued"], <<>>),
            Response("error", [ActionID |-> aid, Message |-> "Extension does not exist."], <<>>)} :
               aid \in CallIds}

NewchannelEvents ==
    {Event("Newchannel", [Uniqueid |-> u, Channel |-> ch, ChannelState |-> "0",
                          ChannelStateDesc |-> "Down"]) :
         u \in UniqueIds, ch \in {<<"SIP/", "surycat">>, <<"Local/", "6004">>}}

VarSetEvents ==
    {Event("VarSet", [Variable |-> v, Value |-> k, Uniqueid |-> u, Channel |-> <<"Local/", "6004">>]) :
         v \in {TrackingVariable, "OTHER"}, k \in CallIds \cup {"9"}, u \in UniqueIds}

LocalBridgeEvents ==
    {Event("LocalBridge", [Uniqueid1 |-> u1, Uniqueid2 |-> u2]) :
         u1 \in UniqueIds, u2 \in UniqueIds}

DialEvents ==
    {Event("Dial", [SubEvent |-> "Begin", UniqueID |-> u]) : u \in UniqueIds}
        \cup {Event("Dial", [SubEvent |-> "End", UniqueID |-> u, DialStatus |-> "BUSY"]) :
                  u \in UniqueIds}

NewstateEvents ==
    {Event("Newstate", [Uniqueid |-> u, ChannelState |-> st[1], ChannelStateDesc |-> st[2]]) :
         u \in UniqueIds, st \in {<<"4", "Ring">>, <<"6", "Up">>}}

SoftHangupRequestEvents ==
    {Event("SoftHangupRequest", [Uniqueid |-> u, Cause |-> c[1]]) : u \in UniqueIds, c \in Causes}

HangupEvents ==
    {Event("Hangup", Put([Uniqueid |-> u, Cause |-> c[1]], "Cause-txt", c[2])) :
         u \in UniqueIds, c \in Causes}

OriginateResponseEvents ==
    {Event("OriginateResponse", [Response |-> r, ActionID |-> aid, Reason |-> "5"]) :
         r \in {"Failure", "Success"}, aid \in CallIds \cup {"9"}}

CallEvents ==
    NewchannelEvents \cup VarSetEvents \cup LocalBridgeEvents \cup DialEvents
        \cup NewstateEvents \cup SoftHangupRequestEvents \cup HangupEvents
        \cup OriginateResponseEvents

---------------------------------------------------------------------------
(* The entry points as actions.                                            *)

\* Handler()
NewHandlerCall ==
    /\ Len(handlers) < MaxHandlers
    /\ Commit([World EXCEPT !.handlers = Append(@, NewHandler),
                            !.started = Append(@, NoStart)])

\* handler.on_result = cb
SetOnResult ==
    \E h \in 1..Len(handlers), cb \in {MockCb, NotCallable} :
        Commit(set_on_result(World, h, cb))

\* handler.on_exception = cb
SetOnException ==
    \E h \in 1..Len(handlers), cb \in {MockCb, NotCallable} :
        Commit(set_on_exception(World, h, cb))

\* handler.set_result(v), called by a producer
SetResult ==
    \E h \in 1..Len(handlers), v \in Values :
        Commit(set_result(World, h, v))

\* handler.set_exception(e), called by a producer
SetException ==
    \E h \in 1..Len(handlers), e \in Exceptions :
        Commit(set_exception(World, h, e))

\* children = [Handler() for i in range(n)]
NewHandlers(w, n) ==
    [w EXCEPT !.handlers = @ \o [i \in 1..n |-> NewHandler],
              !.started = @ \o [i \in 1..n |-> NoStart]]

\* agg = Handler.aggregate(children), of new Handlers as setup_filters
\* aggregates the Handlers of the actions it has just sent; one aggregate in
\* a behaviour.
Aggregate ==
    /\ closures = <<>>
    /\ \E n \in 1..MaxHandlers :
           Commit(aggregate(NewHandlers(World, n), [i \in 1..n |-> Len(handlers) + i]))

\* a = ami.send_action(name, headers), and then either nothing or, as the
\* callers in the tests do, a.on_result = cb; a.on_exception = cb
SendAction ==
    /\ Len(handlers) < MaxHandlers
    /\ \E hd \in {EmptyMap} \cup {[ActionID |-> aid] : aid \in SuppliedIds}, binds \in BOOLEAN :
           LET w1 == send_action(World, "Ping", hd, <<>>)
               a == Len(w1.handlers)
           IN  Commit(IF binds THEN set_on_exception(set_on_result(w1, a, MockCb), a, MockCb)
                              ELSE w1)

RegisterEventHandler ==
    \E n \in {"Hangup"} :
        Commit(register_event_handler(World, n, MockCb))

UnregisterEventHandler ==
    \E n \in {"Hangup"} :
        Commit(unregister_event_handler(World, n))

\* history: the first EventList: start response a registered token receives
NoteStart(w, resp) ==
    LET aid == HGet(resp.headers, "ActionID", None)
    IN  IF /\ aid \in DOMAIN _actions
           /\ resp.type # "error"
           /\ Lower(HGet(resp.headers, "EventList", "")) = "start"
           /\ ~started[_actions[aid]].on
        THEN [w EXCEPT !.started[_actions[aid]] =
                           [on |-> TRUE, headers |-> resp.headers, events |-> <<>>]]
        ELSE w

\* history: the events with the token's action id that follow its start
\* response, up to the completing one
NoteEvent(w, event) ==
    LET aid == HGet(event.headers, "ActionID", None)
    IN  IF /\ aid \in DOMAIN _actions
           /\ started[_actions[aid]].on
           /\ Lower(HGet(event.headers, "EventList", "")) # "complete"
        THEN [w EXCEPT !.started[_actions[aid]].events = Append(@, event)]
        ELSE w

\* history: forgotten once the token is no longer registered
Forget(w) ==
    [w EXCEPT !.started =
        [h \in DOMAIN @ |-> IF \E aid \in DOMAIN w.actions : w.actions[aid] = h
                            THEN @[h] ELSE NoStart]]

\* A complete response comes out of the parser.
ResponseReceived ==
    \E resp \in Responses :
        Commit(Forget(NoteStart(response_received(World, resp), resp)))

\* The events the event lists hold together.
RECURSIVE SumLen(_, _)
SumLen(m, ks) ==
    IF ks = {} THEN 0
    ELSE LET k == CHOOSE x \in ks : TRUE
         IN  Len(m[k].events) + SumLen(m, ks \ {k})

Stored == SumLen(_event_lists, DOMAIN _event_lists)

\* The event would be added to an event list when the model holds no more.
Overflows(event) ==
    LET aid == HGet(event.headers, "ActionID", None)
    IN  /\ aid \in DOMAIN _actions
        /\ aid \in DOMAIN _event_lists
        /\ Lower(HGet(event.headers, "EventList", "")) # "complete"
        /\ Stored >= MaxEvents

\* A complete event comes out of the parser.
EventReceived ==
    \E event \in Events :
        /\ ~Overflows(event)
        /\ Commit(Forget(NoteEvent(event_received(World, event), event)))

\* h = proto.send_command(args), and then either nothing or
\* h.on_result = cb; h.on_exception = cb
SendCommand ==
    /\ Len(handlers) < MaxCommands
    /\ \E p \in 1..Len(protos), args \in ArgsTuples, binds \in BOOLEAN :
           LET w1 == send_command(World, p, args)
               h == Len(w1.handlers)
           IN  Commit(IF binds /\ ~Raised(w1)
                      THEN set_on_exception(set_on_result(w1, h, MockCb), h, MockCb)
                      ELSE w1)

\* The lines of text accumulated in _resp_message after the status line.
Accumulated(proto) ==
    Cardinality({i \in 1..Len(proto.resp_message) : proto.resp_message[i] = "\n"}) - 1

\* The line would be added to a usage block when the model holds no more.
TooLong(proto, line) ==
    /\ proto.state = "in-response"
    /\ ~StartsWith(line, CodeStr(proto.resp_code) \o <<" ">>)
    /\ ~EndsWith(line, EndOfUsage)
    /\ Accumulated(proto) >= MaxCont

\* The line receiver hands a line to the parser.
LineReceived ==
    \E p \in 1..Len(protos), line \in Lines :
        /\ ~TooLong(protos[p], line)
        /\ Commit(Feed(World, p, line))


\* executor.bind(ami)
Bind == Commit(bind(World))

\* executor.unbind()
Unbind == Commit(unbind(World))

\* Someone else, a second executor for one, registers a handler for the
\* AsyncAGI events of the multiplexer, and unregisters the handler it
\* registered.
OtherHandlerRegistered ==
    Commit(register_event_handler(World, "AsyncAGI", MockCb))

OtherHandlerUnregistered ==
    /\ "AsyncAGI" \in DOMAIN _event_handlers
    /\ _event_handlers["AsyncAGI"] = MockCb
    /\ Commit(unregister_event_handler(World, "AsyncAGI"))

\* h = proto.send_command(args) on the parser of an Async AGI channel, and
\* then either nothing or h.on_result = cb; h.on_exception = cb
ChannelSendCommand ==
    /\ _command_id <= MaxAsyncCommands
    /\ \E p \in 1..Len(protos), binds \in BOOLEAN :
           LET w1 == send_command(World, p, <<<<"noop">>>>)
               h == Len(handlers) + 1
           IN  Commit(IF binds /\ ~Raised(w1)
                      THEN set_on_exception(set_on_result(w1, h, MockCb), h, MockCb)
                      ELSE w1)

\* A complete response to an AGI action comes out of the AMI parser.
AsyncResponseReceived ==
    \E resp \in AsyncResponses :
        Commit(response_received(World, resp))

\* A complete AsyncAGI event comes out of the AMI parser.
AsyncEventReceived ==
    \E event \in AsyncEvents :
        /\ (event.headers["SubEvent"] = "Start" /\ event.headers["Channel"] \notin DOMAIN _channels)
               => Len(protos) < MaxProtos
        /\ Commit(event_received(World, event))

\* call = Call(); manager.originate(call, headers)
Originate ==
    /\ Len(call_objects) < MaxCalls
    /\ Commit(originate([World EXCEPT !.call_objects = Append(@, NewCall)],
                        Len(call_objects) + 1,
                        OriginateHeaders,
                        <<>>))

\* cm.originate(call, headers) with the headers dict of an earlier originate:
\* send_action has left 'Action' and the ActionID it generated in the
\* caller's dict (and the Variable list, which only the server reads).
OriginateSameHeaders ==
    /\ Len(call_objects) < MaxCalls
    /\ \E n \in 1..(_action_id - 1) :
           Commit(originate([World EXCEPT !.call_objects = Append(@, NewCall)],
                            Len(call_objects) + 1,
                            Put(Put(OriginateHeaders, "Action", "Originate"), "ActionID", IntStr(n)),
                            <<>>))

\* manager.listen_for_incoming_calls(call_factory)
ListenForIncomingCalls == Commit(listen_for_incoming_calls(World))

\* history: the cause of a Hangup or SoftHangupRequest event for a channel
\* bound to a call, kept with the call
NoteCause(w, event) ==
    IF /\ event.name \in {"Hangup", "SoftHangupRequest"}
       /\ event.headers["Uniqueid"] \in DOMAIN manager.unique_ids
    THEN LET call == manager.unique_ids[event.headers["Uniqueid"]]
             pair == Cause(IntOf(event.headers["Cause"]), HGet(event.headers, "Cause-txt", ""))
         IN  IF pair.cause # 0
             THEN [w EXCEPT !.call_objects[call].last_nonzero = pair]
             ELSE IF ~call_objects[call].first_zero.set
             THEN [w EXCEPT !.call_objects[call].first_zero = pair]
             ELSE w
    ELSE w

\* The event would make the incoming-call factory create a Call object.
Promotes(event) ==
    /\ event.name = "Newstate"
    /\ event.headers["Uniqueid"] \notin DOMAIN manager.unique_ids
    /\ event.headers["Uniqueid"] \in DOMAIN manager.new_channels
    /\ manager.incoming_call_factory

\* The answer to an Originate action comes out of the AMI parser.
CallResponseReceived ==
    \E resp \in CallResponses :
        Commit(response_received(World, resp))

\* The events of originated calls: every event of the model about the
\* tracking of a call, its channels, its dialing and its end, the Hangup
\* events with a zero and with a non-zero cause.
OutgoingEvents ==
    VarSetEvents \cup LocalBridgeEvents \cup DialEvents \cup OriginateResponseEvents
        \cup {event \in HangupEvents : event.headers["Cause-txt"] \in {"Unknown", "Call Rejected"}}

\* A complete event comes out of the AMI parser.
CallEventReceived ==
    \E event \in OutgoingEvents :
        Commit(NoteCause(event_received(World, event), event))

\* The events of incoming calls: new channels, their states, and their end
\* with a zero and with a non-zero cause.
IncomingEvents ==
    NewchannelEvents \cup NewstateEvents \cup LocalBridgeEvents
        \cup {event \in SoftHangupRequestEvents : event.headers["Cause"] = "16"}
        \cup {event \in HangupEvents : event.headers["Cause-txt"] \in {"Unknown", "Call Rejected"}}

\* A complete event comes out of the AMI parser.
IncomingEventReceived ==
    \E event \in IncomingEvents :
        /\ Promotes(event) => Len(call_objects) < MaxCalls
        /\ Commit(NoteCause(event_received(World, event), event))

\* The bytes of the model: a letter, a carriage return and a line feed.
Bytes == {"a", "\r", "\n"}

\* The byte strings of 1 to n bytes.
ByteStrings(n) == UNION {[1..k -> Bytes] : k \in 1..n}

\* The transport delivers some bytes: receiver.data_received(data).
DataReceived ==
    \E data \in ByteStrings(MaxBytes - Len(receiver.fed)) :
        Commit([World EXCEPT !.receiver =
                    [data_received(receiver, data) EXCEPT
                         !.fed = @ \o data,
                         !.cuts = IF receiver.fed = <<>> THEN @ ELSE @ \cup {Len(receiver.fed)}]])

\* The bytes of the AMI stream: one "Key: value" line per header, each
\* ended by CR LF, and an empty line after the last.
WireLine(key, value) == <<key, ":", " ", value, "\r", "\n">>

EndOfMessage == <<"\r", "\n">>

Greeting == <<"Asterisk Call Manager", "/", "1.1", "\r", "\n">>

WireError(aid) ==
    WireLine("Response", "Error") \o WireLine("ActionID", aid)
        \o WireLine("Message", "denied") \o EndOfMessage

WireSuccess(aid) ==
    WireLine("Response", "Success") \o WireLine("ActionID", aid) \o EndOfMessage

WireEvent(name) ==
    WireLine("Event", name) \o WireLine("Cause", "16") \o EndOfMessage

WireIds == {"1"}

WireMessages ==
    {WireError(aid) : aid \in WireIds} \cup {WireSuccess(aid) : aid \in WireIds}
        \cup {WireEvent("Hangup")}

\* The streams of n messages after the greeting.
RECURSIVE WireStreams(_)
WireStreams(n) ==
    IF n = 0 THEN {Greeting}
    ELSE {s \o m : s \in WireStreams(n - 1), m \in WireMessages}

\* Where the transport may cut a message: between the CR and the LF that
\* end its first line.
WireCuts == {5}

\* What the transport may have delivered so far: the greeting and some
\* messages, the last one whole or cut.
WireFed ==
    UNION {WireStreams(n) : n \in 0..MaxMessages}
        \cup {s \o SubSeq(m, 1, k) : s \in UNION {WireStreams(n) : n \in 0..(MaxMessages - 1)},
                                      m \in WireMessages, k \in WireCuts}

\* history: the number of chunks the receiver was fed
ChunksFed(lr) == IF lr.fed = <<>> THEN 0 ELSE Cardinality(lr.cuts) + 1

\* The transport delivers the next bytes of the server's stream to the AMI
\* protocol: proto.data_received(data).
WireReceived ==
    /\ ChunksFed(receiver) < MaxChunks
    /\ \E next \in WireFed :
           /\ StartsWith(next, receiver.fed)
           /\ Len(next) > Len(receiver.fed)
           /\ Commit([protocol_data_received(World, From(next, Len(receiver.fed)))
                          EXCEPT !.receiver.fed = next,
                                 !.receiver.cuts = IF receiver.fed = <<>> THEN @
                                                   ELSE @ \cup {Len(receiver.fed)}])

---------------------------------------------------------------------------
(* Specifications.                                                         *)

Init ==
    /\ handlers = <<>>
    /\ _action_id = 1
    /\ _actions = EmptyMap
    /\ _event_lists = EmptyMap
    /\ _event_handlers = EmptyMap
    /\ started = <<>>
    /\ protos = <<>>
    /\ python \in PythonVersions
    /\ chans = <<>>
    /\ _channels = EmptyMap
    /\ _command_id = 1
    /\ ami = FALSE
    /\ manager = NoManager
    /\ call_objects = <<>>
    /\ receiver = NewLineReceiver
    /\ parser = NewParser
    /\ closures = <<>>
    /\ protocol_factory = "AGIProtocol"

\* The objects of Init as a world.
FreshWorld ==
    [handlers |-> <<>>, action_id |-> 1, actions |-> EmptyMap,
     event_lists |-> EmptyMap, event_handlers |-> EmptyMap,
     started |-> <<>>, protos |-> <<>>, python |-> 3,
     chans |-> <<>>, channels |-> EmptyMap, command_id |-> 1, ami |-> FALSE,
     manager |-> NoManager, call_objects |-> <<>>, receiver |-> NewLineReceiver,
     parser |-> NewParser, closures |-> <<>>, protocol_factory |-> "AGIProtocol",
     effects |-> <<>>, exc |-> NoExc]

\* The completion token alone, driven by a producer and a consumer.
NextHandler ==
    \/ NewHandlerCall
    \/ SetOnResult
    \/ SetOnException
    \/ SetResult
    \/ SetException

SpecHandler == Init /\ [][NextHandler]_vars

\* The AMI multiplexer, its caller and its server.
NextAMI ==
    \/ SendAction
    \/ ResponseReceived
    \/ EventReceived

SpecAMI == Init /\ [][NextAMI]_vars

\* One AGI parser on a script or Fast AGI connection, with the session
\* bound at connection_made, its caller and its server.
InitAGI ==
    /\ handlers = <<>>
    /\ _action_id = 1
    /\ _actions = EmptyMap
    /\ _event_lists = EmptyMap
    /\ _event_handlers = EmptyMap
    /\ started = <<>>
    /\ python \in PythonVersions
    /\ chans = <<>>
    /\ _channels = EmptyMap
    /\ _command_id = 1
    /\ ami = FALSE
    /\ manager = NoManager
    /\ call_objects = <<>>
    /\ receiver = NewLineReceiver
    /\ parser = NewParser
    /\ closures = <<>>
    /\ protocol_factory = "AGIProtocol"
    /\ protos = <<[NewProto(ProtocolAGIChannel, TRUE) EXCEPT !.session = TRUE]>>

NextAGI ==
    \/ SendCommand
    \/ LineReceived

SpecAGI == InitAGI /\ [][NextAGI]_vars


\* An Async AGI executor on an AMI multiplexer, the sessions' commands and
\* the AMI server.  The sessions' callbacks do not call back into the
\* parser.
NextAsync ==
    \/ Bind
    \/ ChannelSendCommand
    \/ AsyncResponseReceived
    \/ AsyncEventReceived

SpecAsync == Init /\ [][NextAsync]_vars

\* An executor whose protocol_factory is either the plain AGIProtocol with
\* a session that only records, or the CLIProtocol of examplecli.py, whose
\* session sends its first command from session_established.
InitSession ==
    /\ handlers = <<>>
    /\ _action_id = 1
    /\ _actions = EmptyMap
    /\ _event_lists = EmptyMap
    /\ _event_handlers = EmptyMap
    /\ started = <<>>
    /\ protos = <<>>
    /\ python \in PythonVersions
    /\ chans = <<>>
    /\ _channels = EmptyMap
    /\ _command_id = 1
    /\ ami = FALSE
    /\ manager = NoManager
    /\ call_objects = <<>>
    /\ receiver = NewLineReceiver
    /\ parser = NewParser
    /\ closures = <<>>
    /\ protocol_factory \in {"AGIProtocol", "CLIProtocol"}

NextSession ==
    \/ Bind
    \/ ChannelSendCommand
    \/ AsyncResponseReceived
    \/ AsyncEventReceived

SpecSession == InitSession /\ [][NextSession]_vars

\* Several Async AGI channels under one executor, each with its commands:
\* the channels start with a well-formed environment and do not end, the
\* commands have both callbacks bound, and the server answers each command
\* with a result or with an error, in any order and to any channel.
MaxChannelCommands == 2

ChannelCommandIds == {CommandIdStr(n) : n \in 1..MaxChannelCommands}

ChannelStarts ==
    {Event("AsyncAGI", [SubEvent |-> "Start", Channel |-> ch, Env |-> GoodEnv]) : ch \in ChannelIds}

ChannelExecs ==
    {Event("AsyncAGI", [SubEvent |-> "Exec", Channel |-> ch, CommandID |-> cmd, Result |-> res]) :
         ch \in ChannelIds, cmd \in ChannelCommandIds,
         res \in {<<"2", "0", "0", "%20", "result", "%3D", "0", "%0A">>,
                  <<"5", "1", "0", "%20", "Invalid or unknown command", "%0A">>}}

ChannelResponses ==
    UNION {{Response("success", [ActionID |-> IntStr(n), Message |-> "Added AGI command to queue"], <<>>),
            Response("error", [ActionID |-> IntStr(n), Message |-> "denied"], <<>>)} :
               n \in 1..MaxChannelCommands}

\* h = proto.send_command(args); h.on_result = cb; h.on_exception = cb
ChannelCommandSent ==
    /\ _command_id <= MaxChannelCommands
    /\ \E p \in 1..Len(protos) :
           LET w1 == send_command(World, p, <<<<"noop">>>>)
               h == Len(handlers) + 1
           IN  Commit(IF Raised(w1) THEN w1
                      ELSE set_on_exception(set_on_result(w1, h, MockCb), h, MockCb))

\* The answer to an AGI action comes out of the AMI parser.
ChannelResponseReceived ==
    \E resp \in ChannelResponses :
        Commit(response_received(World, resp))

\* A Start or Exec event comes out of the AMI parser.
ChannelEventReceived ==
    \E event \in ChannelStarts \cup ChannelExecs :
        Commit(event_received(World, event))

NextChannels ==
    \/ Bind
    \/ ChannelCommandSent
    \/ ChannelResponseReceived
    \/ ChannelEventReceived

SpecChannels == Init /\ [][NextChannels]_vars

\* An executor that is bound and unbound, on a multiplexer on which someone
\* else registers a handler for the AsyncAGI events too; its channels start
\* and send commands meanwhile, and the server answers them.
NextBinding ==
    \/ Bind
    \/ Unbind
    \/ OtherHandlerRegistered
    \/ OtherHandlerUnregistered
    \/ ChannelCommandSent
    \/ ChannelResponseReceived
    \/ ChannelEventReceived

SpecBinding == Init /\ [][NextBinding]_vars

\* A CallManager on an AMI multiplexer, after CallManager(ami): its user
\* originates calls, the server answers and sends the events of the calls.
InitCalls ==
    /\ handlers = <<>>
    /\ _action_id = 1
    /\ _actions = EmptyMap
    /\ _event_lists = EmptyMap
    /\ _event_handlers = NewManager(FreshWorld).event_handlers
    /\ started = <<>>
    /\ protos = <<>>
    /\ python \in PythonVersions
    /\ chans = <<>>
    /\ _channels = EmptyMap
    /\ _command_id = 1
    /\ ami = FALSE
    /\ manager = NewManager(FreshWorld).manager
    /\ call_objects = <<>>
    /\ receiver = NewLineReceiver
    /\ parser = NewParser
    /\ closures = <<>>
    /\ protocol_factory = "AGIProtocol"

NextCalls ==
    \/ Originate
    \/ CallResponseReceived
    \/ CallEventReceived

SpecCalls == InitCalls /\ [][NextCalls]_vars

\* The same manager with the calls that come in.
NextIncoming ==
    \/ ListenForIncomingCalls
    \/ IncomingEventReceived

SpecIncoming == InitCalls /\ [][NextIncoming]_vars

\* The manager of a caller who passes one headers dict to every originate.
NextReuse ==
    \/ Originate
    \/ OriginateSameHeaders
    \/ CallResponseReceived
    \/ CallEventReceived

SpecReuse == InitCalls /\ [][NextReuse]_vars

\* A line receiver fed a byte stream in chunks.
NextLines == DataReceived

SpecLines == Init /\ [][NextLines]_vars

\* Handlers and an aggregate of them, driven by a producer and a consumer.
NextAggregate ==
    \/ Aggregate
    \/ SetOnResult
    \/ SetOnException
    \/ SetResult
    \/ SetException

SpecAggregate == Init /\ [][NextAggregate]_vars

\* The AMI protocol on its transport: actions are sent, an event handler is
\* registered, and the bytes of the server arrive in chunks.
NextWire ==
    \/ SendAction
    \/ RegisterEventHandler
    \/ WireReceived

SpecWire == Init /\ [][NextWire]_vars

---------------------------------------------------------------------------
(* Properties of the completion token and of the AMI multiplexer.          *)

\* The effects of a call that are of one of the given kinds, in order.
EffectsOf(w, kinds) == SelectSeq(w.effects, LAMBDA x : x.e \in kinds)

\* The Handler identities registered in the action map m.
Registered(m) == {m[a] : a \in DOMAIN m}

\* response_received(resp) completes exactly Handler h, which was
\* registered under action_id, on the path `kind` with the value val.
CompletesOnly(w, action_id, h, kind, val) ==
    /\ w.actions = Del(_actions, action_id)
    /\ \A g \in (1..Len(handlers)) \ {h} : w.handlers[g] = handlers[g]
    /\ w.handlers[h].triggered
    /\ w.handlers[h].nfired = handlers[h].nfired + 1
    /\ EffectsOf(w, {"fire"}) = <<[e |-> "fire", h |-> h, kind |-> kind, val |-> val]>>
    /\ EffectsOf(w, {"call"}) =
           IF (IF kind = "result" THEN handlers[h].result_cb ELSE handlers[h].exception_cb) = NoCb
           THEN <<>>
           ELSE <<[e |-> "call", h |-> h, kind |-> kind, val |-> val]>>

\* C1: in every reachable state of the multiplexer and for every response
\* that names a registered action id and does not open an event list, a
\* success, follows or goodbye response unregisters exactly the Handler
\* registered under that id and delivers the response on its result path,
\* an error response unregisters it and delivers ActionError(Message) on
\* its exception path; no other Handler is fired or unregistered, whatever
\* the order in which the pending actions are answered.
C1_ResponsesMatchedByActionId ==
    \A resp \in Responses :
        LET action_id == HGet(resp.headers, "ActionID", None)
            w == response_received(World, resp)
        IN  (/\ action_id \in DOMAIN _actions
             /\ Lower(HGet(resp.headers, "EventList", "")) # "start")
            => IF resp.type = "error"
               THEN CompletesOnly(w, action_id, _actions[action_id], "exception",
                                  Exc("ActionError", HGet(resp.headers, "Message", "")))
               ELSE CompletesOnly(w, action_id, _actions[action_id], "result", resp)

\* Two actions were sent and the second was answered first: its Handler has
\* fired and called its callback while the first is still pending.
C1_AnsweredOutOfOrder ==
    /\ Len(handlers) = 2
    /\ _actions = [x \in {"1"} |-> 1]
    /\ ~handlers[1].triggered
    /\ handlers[2].action_id = "X"
    /\ handlers[2].nfired = 1
    /\ handlers[2].ncalls = 1

\* The Handler h was never displaced from the action map by a later
\* send_action while it was pending.
NeverOverwritten == \A h \in 1..Len(handlers) : handlers[h].triggered \/ h \in Registered(_actions)

\* C2: once a pending action has received an EventList: start response, an
\* event with its action id that is not the completing one leaves its
\* Handler registered and unfired, and the event with EventList: complete
\* (in any case) fires it once with an EventList holding exactly the events
\* received with that action id since the start response, in order, under
\* the start response's headers overlaid with the completing event's, and
\* removes both the action entry and the aggregation entry.  Stated of the
\* behaviours in which no pending Handler was ever overwritten.
C2_EventListAggregation ==
    NeverOverwritten =>
    \A event \in Events :
        LET action_id == HGet(event.headers, "ActionID", None)
            w == event_received(World, event)
        IN  (action_id \in DOMAIN _actions /\ started[_actions[action_id]].on)
            => LET h == _actions[action_id]
               IN  IF Lower(HGet(event.headers, "EventList", "")) = "complete"
                   THEN /\ CompletesOnly(w, action_id, h, "result",
                                         EventList(Update(started[h].headers, event.headers),
                                                   started[h].events))
                        /\ action_id \notin DOMAIN w.event_lists
                   ELSE /\ w.actions = _actions
                        /\ w.handlers = handlers
                        /\ EffectsOf(w, {"fire", "call"}) = <<>>

\* C3: in every reachable state, no send_action registers its Handler under
\* an action id that a Handler which has not fired still holds, whether the
\* id comes from the counter or from the caller's ActionID header.
C3_ActionIdsUnique ==
    \A hd \in {EmptyMap} \cup {[ActionID |-> aid] : aid \in SuppliedIds} :
        LET w == send_action(World, "Ping", hd, <<>>)
            action_id == w.handlers[Len(w.handlers)].action_id
        IN  action_id \in DOMAIN _actions => handlers[_actions[action_id]].triggered

\* C4: a Handler's callbacks are called at most once in all, and once
\* set_result or set_exception has got past the _triggered test of a
\* Handler, every further set_result and set_exception on it raises
\* RuntimeError, calls no callback and changes nothing.
C4_FiresAtMostOnce ==
    \A h \in 1..Len(handlers) :
        /\ handlers[h].ncalls <= 1
        /\ handlers[h].nfired >= 1 =>
               /\ \A v \in Values :
                      LET w == set_result(World, h, v)
                      IN  w.exc.cls = "RuntimeError" /\ w.effects = <<>> /\ w.handlers = handlers
               /\ \A x \in Exceptions :
                      LET w == set_exception(World, h, x)
                      IN  w.exc.cls = "RuntimeError" /\ w.effects = <<>> /\ w.handlers = handlers

\* A Handler with both callbacks bound has fired and called one of them:
\* every further call is a second firing.
C4_FiredWithCallbacks ==
    \E h \in 1..Len(handlers) :
        /\ handlers[h].result_cb # NoCb
        /\ handlers[h].exception_cb # NoCb
        /\ handlers[h].nfired = 1
        /\ handlers[h].ncalls = 1

---------------------------------------------------------------------------
(* Properties of the AGI parser.                                           *)

\* An argument of the tuple holds a NUL or a line feed.
HasForbidden(args) ==
    \E i \in 1..Len(args) : Contains(args[i], "\\0") \/ Contains(args[i], "\n")

\* The call that gave w wrote nothing, queued nothing and left parser p in
\* its state.
NothingSent(w, p) ==
    /\ EffectsOf(w, {"write"}) = <<>>
    /\ w.protos[p].state = protos[p].state
    /\ w.protos[p].commands = protos[p].commands
    /\ w.handlers = handlers

\* The characters _escape_arg puts a backslash before.
Escaped == {"\\", "\""}

\* The argument is to be written in double quotes, ws being the characters
\* that count as whitespace.
MustQuote(arg, ws) ==
    arg = <<>> \/ \E i \in 1..Len(arg) : arg[i] \in ws \cup Escaped

\* Where character i of arg stands in arg with a backslash put before every
\* backslash and double quote.
Pos(arg, i) == i + Cardinality({j \in 1..i : arg[j] \in Escaped})

\* out is arg with a backslash before every backslash and double quote.
Backslashed(arg, out) ==
    /\ Len(out) = Len(arg) + Cardinality({j \in 1..Len(arg) : arg[j] \in Escaped})
    /\ \A i \in 1..Len(arg) :
           /\ out[Pos(arg, i)] = arg[i]
           /\ arg[i] \in Escaped => out[Pos(arg, i) - 1] = "\\"

\* out is arg as the command line holds it.
WrittenAs(arg, out, ws) ==
    IF MustQuote(arg, ws)
    THEN /\ Len(out) >= 2
         /\ out[1] = "\""
         /\ out[Len(out)] = "\""
         /\ Backslashed(arg, SubSeq(out, 2, Len(out) - 1))
    ELSE out = arg

\* line is the arguments, each as the command line holds it, with one space
\* between two of them and one line feed at the end.
RECURSIVE CommandLine(_, _, _)
CommandLine(args, line, ws) ==
    IF Len(args) = 1
    THEN /\ line # <<>>
         /\ line[Len(line)] = "\n"
         /\ WrittenAs(args[1], SubSeq(line, 1, Len(line) - 1), ws)
    ELSE \E n \in 0..(Len(line) - 1) :
             /\ WrittenAs(args[1], SubSeq(line, 1, n), ws)
             /\ line[n + 1] = " "
             /\ CommandLine(Tail(args), From(line, n + 1), ws)

\* _encode_command gives for every tuple of arguments without NUL and LF
\* the line that holds them as ws says, and raises ValueError for every
\* other tuple.
Encodes(ws) ==
    \A args \in EscapeTuples :
        IF HasForbidden(args)
        THEN _encode_command(args) = NoneStr
        ELSE /\ _encode_command(args) # NoneStr
             /\ CommandLine(args, _encode_command(args), ws)

EncodesWhitespace == Encodes({" ", "\t", "\r"})

EncodesSpaceOrTab == Encodes({" ", "\t"})

\* In every state with parser p idle, send_command writes the line of
\* _encode_command and nothing else, and writes nothing when that raises.
WritesEncoded ==
    \A p \in 1..Len(protos) :
        protos[p].state = "idle" =>
            \A args \in ArgsTuples :
                LET w == send_command(World, p, args)
                IN  IF _encode_command(args) = NoneStr
                    THEN w.exc.cls = "ValueError" /\ EffectsOf(w, {"write"}) = <<>>
                    ELSE /\ ~Raised(w)
                         /\ EffectsOf(w, {"write"})
                                = <<[e |-> "write", data |-> _encode_command(args)]>>

SeparatorLines ==
    {StatusLine(200, sep, <<"result", "=", "0">>) : sep \in {" ", "-"}}
        \cup {StatusLine(c, sep, t) : c \in {510, 520}, sep \in {" ", "-"}, t \in ErrorTails}

\* C28: in every reachable state in which a parser awaits a response, a
\* status line with a space as fourth character is a complete response: the
\* oldest command leaves the queue, its Handler fires and the parser is
\* idle; a status line with a hyphen as fourth character begins a response
\* of several lines: nothing fires, the queue is as it was and the parser is
\* in-response, where C7 has it stay until the line that starts with the
\* code and a space.
C28_SeparatorDecides ==
    \A p \in 1..Len(protos), line \in SeparatorLines :
        (protos[p].state = "awaiting-response" /\ protos[p].commands # <<>>) =>
            LET w == line_received(World, p, line)
            IN  IF line[4] = " "
                THEN /\ w.protos[p].state = "idle"
                     /\ w.protos[p].commands = Tail(protos[p].commands)
                     /\ Len(EffectsOf(w, {"fire"})) = 1
                ELSE /\ w.protos[p].state = "in-response"
                     /\ w.protos[p].commands = protos[p].commands
                     /\ EffectsOf(w, {"fire"}) = <<>>

\* C5: in every reachable state of an AGI parser and for every argument
\* tuple, send_command outside the state idle raises RuntimeError, writes
\* nothing and leaves the state and the command queue as they were; in idle
\* with a NUL or a line feed in an argument it raises ValueError, writes
\* nothing and leaves the parser idle; in idle with a non-empty tuple of
\* permitted arguments it writes one line and awaits the response.
C5_SendCommandOnlyWhenIdle ==
    \A p \in 1..Len(protos), args \in ArgsTuples :
        LET w == send_command(World, p, args)
        IN  IF protos[p].state # "idle"
            THEN w.exc.cls = "RuntimeError" /\ NothingSent(w, p)
            ELSE IF HasForbidden(args)
            THEN w.exc.cls = "ValueError" /\ NothingSent(w, p)
            ELSE Len(args) > 0 =>
                     /\ ~Raised(w)
                     /\ Len(EffectsOf(w, {"write"})) = 1
                     /\ w.protos[p].state = "awaiting-response"
                     /\ w.protos[p].commands = <<Len(handlers) + 1>>

\* A command was sent and the parser is inside a usage block: neither idle
\* nor at the status line.
C5_CommandInFlight ==
    /\ protos[1].state = "in-response"
    /\ protos[1].commands = <<1>>
    /\ ~handlers[1].triggered

\* line_received(line) fired exactly the oldest queued command of parser p,
\* on the path `kind`, and left the parser idle.
FiresOldest(w, p, kind) ==
    LET h == protos[p].commands[1]
    IN  /\ w.protos[p].state = "idle"
        /\ w.protos[p].commands = Tail(protos[p].commands)
        /\ \A g \in (1..Len(handlers)) \ {h} : w.handlers[g] = handlers[g]
        /\ w.handlers[h].nfired = handlers[h].nfired + 1
        /\ Len(EffectsOf(w, {"fire"})) = 1
        /\ EffectsOf(w, {"fire"})[1].h = h
        /\ EffectsOf(w, {"fire"})[1].kind = kind

\* What line_received(line) delivered.
Delivered(w) == EffectsOf(w, {"fire"})[1].val

\* C6: in every reachable state in which a parser awaits a response, every
\* status line with a space as separator and a code in [200, 600) fires the
\* oldest queued command exactly once and leaves the parser idle: with
\* Response(result, variables, data) if the code is below 300 and the result
\* is not negative, with AGICommandFailure if the code is below 300 and the
\* result is negative, with AGIUnknownCommand for 510, AGIForbiddenCommand
\* for 511, AGISyntaxError for 520 and AGIError for any other code.
C6_ResponseClassification ==
    \A p \in 1..Len(protos), line \in StatusLines :
        (/\ protos[p].state = "awaiting-response"
         /\ protos[p].commands # <<>>
         /\ line[4] = " "
         /\ IsInt(UpTo(line, 3))
         /\ 200 <= ToInt(UpTo(line, 3)) /\ ToInt(UpTo(line, 3)) < 600)
        => LET w == line_received(World, p, line)
               c == ToInt(UpTo(line, 3))
               body == RStrip(From(line, 4), Whitespace)
               parsed == _parse_result(body)
           IN  IF c >= 300
               THEN /\ FiresOldest(w, p, "exception")
                    /\ Delivered(w).cls = (CASE c = 510 -> "AGIUnknownCommand"
                                             [] c = 511 -> "AGIForbiddenCommand"
                                             [] c = 520 -> "AGISyntaxError"
                                             [] OTHER -> "AGIError")
               ELSE IF ~parsed.err /\ parsed.has_result /\ parsed.result >= 0
               THEN /\ FiresOldest(w, p, "result")
                    /\ Delivered(w) = AGIResponse(parsed.result, parsed.variables, parsed.data)
               ELSE /\ FiresOldest(w, p, "exception")
                    /\ Delivered(w).cls = "AGICommandFailure"

\* C7: a 520 status line with "follows" in its tail, received while a
\* command awaits its response, fires nothing and puts the parser in
\* in-response; there, a line that neither starts with "520 " nor ends with
\* "520 End of proper usage." fires nothing and leaves the parser in
\* in-response, and a line that does fires the pending command exactly once
\* with an AGISyntaxError whose message starts with the tail of the status
\* line, and leaves the parser idle.
C7_UsageBlock ==
    \A p \in 1..Len(protos), line \in Lines :
        LET w == line_received(World, p, line)
            text == RStrip(line, {"\r", "\n"})
        IN  /\ (/\ protos[p].state = "awaiting-response"
                /\ protos[p].commands # <<>>
                /\ Len(line) >= 4 /\ line[4] \in {" ", "-"}
                /\ UpTo(line, 3) = <<"5", "2", "0">>
                /\ Contains(From(line, 4), "follows"))
               => /\ w.protos[p].state = "in-response"
                  /\ w.protos[p].commands = protos[p].commands
                  /\ w.handlers = handlers
                  /\ EffectsOf(w, {"fire", "call"}) = <<>>
            /\ (protos[p].state = "in-response" /\ protos[p].commands # <<>>)
               => IF \/ StartsWith(line, <<"5", "2", "0", " ">>)
                     \/ EndsWith(text, <<"5", "2", "0", " ", "End of proper usage.">>)
                  THEN /\ FiresOldest(w, p, "exception")
                       /\ Delivered(w).cls = "AGISyntaxError"
                       /\ protos[p].usage # <<>>
                       /\ StartsWith(Delivered(w).msg, protos[p].usage)
                  ELSE /\ w.protos[p].state = "in-response"
                       /\ w.protos[p].commands = protos[p].commands
                       /\ w.handlers = handlers
                       /\ EffectsOf(w, {"fire", "call"}) = <<>>

\* A usage block was opened and closed again: the pending command has
\* fired, called its callback, and the parser is idle.
C7_UsageBlockClosed ==
    /\ protos[1].state = "idle"
    /\ protos[1].usage # <<>>
    /\ handlers[1].nfired = 1
    /\ handlers[1].ncalls = 1

\* The responses that carry an action id, those of the actions sent and
\* those of an action that never was.
ResponsesWithId == UNION {ResponsesFor(aid) : aid \in AIDs \cup {"", "9"}}

\* C22: a response with an ActionID under which no action is registered
\* (none was ever sent under it, or a response or a completing event has
\* already answered it) raises nothing, fires no Handler and calls no
\* callback, and leaves the action map, the event-list map and every
\* Handler as they were.
C22_StaleResponsesDropped ==
    \A resp \in ResponsesWithId :
        LET w == response_received(World, resp)
        IN  resp.headers["ActionID"] \notin DOMAIN _actions
            => /\ ~Raised(w)
               /\ EffectsOf(w, {"fire", "call", "write"}) = <<>>
               /\ w.actions = _actions
               /\ w.event_lists = _event_lists
               /\ w.handlers = handlers
               /\ w.event_handlers = _event_handlers

\* An action was answered and its Handler fired, so that a further
\* response under its id is stale, while another action is pending.
C22_AnsweredAndPending ==
    \E h, g \in 1..Len(handlers) :
        /\ handlers[h].nfired = 1
        /\ handlers[h].action_id \in AIDs
        /\ handlers[h].action_id \notin DOMAIN _actions
        /\ g \in Registered(_actions)
        /\ ~handlers[g].triggered

\* The calls of event handlers and of unhandled_event_received among the
\* effects of a call, in order.
Routed(w) == EffectsOf(w, {"handler", "unhandled"})

\* C23: an event is handled in exactly one way, once, and raises nothing.
\* When its ActionID is that of a pending action with an event list open,
\* the event is appended to the list, or completes it and fires the
\* action's Handler, and no event handler is called; otherwise the handler
\* registered for its name is called once with it and nothing else changes;
\* otherwise unhandled_event_received is called once with it.
C23_EventRouting ==
    \A event \in Events :
        LET action_id == HGet(event.headers, "ActionID", None)
            w == event_received(World, event)
        IN  /\ ~Raised(w)
            /\ IF action_id \in DOMAIN _actions /\ action_id \in DOMAIN _event_lists
               THEN /\ Routed(w) = <<>>
                    /\ \/ /\ w.actions = _actions
                          /\ EffectsOf(w, {"fire"}) = <<>>
                          /\ w.event_lists =
                                 [_event_lists EXCEPT ![action_id].events = Append(@, event)]
                       \/ /\ w.actions = Del(_actions, action_id)
                          /\ w.event_lists = Del(_event_lists, action_id)
                          /\ Len(EffectsOf(w, {"fire"})) = 1
                          /\ EffectsOf(w, {"fire"})[1].h = _actions[action_id]
               ELSE /\ w.actions = _actions
                    /\ w.event_lists = _event_lists
                    /\ w.handlers = handlers
                    /\ Routed(w) =
                           <<[e |-> IF event.name \in DOMAIN _event_handlers
                                    THEN "handler" ELSE "unhandled",
                              name |-> event.name, event |-> event]>>

\* C25: once set_result or set_exception has been called on a Handler,
\* assigning on_result or on_exception raises and binds nothing.
C25_NoBindingAfterFiring ==
    \A h \in 1..Len(handlers), cb \in {MockCb, NotCallable} :
        handlers[h].triggered =>
            /\ Raised(set_on_result(World, h, cb))
            /\ set_on_result(World, h, cb).handlers = handlers
            /\ Raised(set_on_exception(World, h, cb))
            /\ set_on_exception(World, h, cb).handlers = handlers

\* The Handler that is child i of the aggregate with cells c, and whether
\* aggregate returned: every child has the two closures bound.
IsChild(h, c, i) ==
    /\ handlers[h].result_cb = [k |-> "_on_result", c |-> c, i |-> i]
    /\ handlers[h].exception_cb = [k |-> "_on_exception", c |-> c]

ChildOf(c, i) == CHOOSE h \in 1..Len(handlers) : IsChild(h, c, i)

Aggregated(c) ==
    \A i \in DOMAIN closures[c].results : \E h \in 1..Len(handlers) : IsChild(h, c, i)

\* The deliveries to Handler h among the effects of a call.
FiresOf(w, h) == SelectSeq(w.effects, LAMBDA x : x.e = "fire" /\ x.h = h)

\* C26: the Handler aggregate(children) returns fires at most once.  While
\* it has not fired, a child's result is stored at the child's place in the
\* list whatever the order the children succeed in, and when it is the last
\* one pending the aggregate fires, in that very call, with the list of the
\* results in child order; a child's exception fires the aggregate with
\* that exception in that very call.  Once the aggregate has fired, a
\* child's result or exception fires nothing, raises nothing and leaves the
\* aggregate and its cells as they are.
C26_AggregateFiresOnce ==
    \A c \in 1..Len(closures) :
        Aggregated(c) =>
            LET cl == closures[c]
                agg == cl.result_handler
            IN  /\ handlers[agg].nfired <= 1
                /\ \A i \in DOMAIN cl.results :
                       /\ i \in cl.pending <=> cl.results[i] = NoResult
                       /\ ~handlers[agg].triggered /\ i \notin cl.pending
                              => handlers[ChildOf(c, i)].triggered
                /\ \A i \in DOMAIN cl.results, v \in Values :
                       ~handlers[ChildOf(c, i)].triggered =>
                           LET w == set_result(World, ChildOf(c, i), v)
                               list == [cl.results EXCEPT ![i] = v]
                           IN  IF handlers[agg].triggered
                               THEN /\ FiresOf(w, agg) = <<>>
                                    /\ ~Raised(w)
                                    /\ w.closures = closures
                                    /\ w.handlers[agg] = handlers[agg]
                               ELSE /\ ~Raised(w)
                                    /\ w.closures[c].results = list
                                    /\ w.closures[c].pending = cl.pending \ {i}
                                    /\ IF cl.pending = {i}
                                       THEN /\ Len(FiresOf(w, agg)) = 1
                                            /\ FiresOf(w, agg)[1].kind = "result"
                                            /\ FiresOf(w, agg)[1].val = [results |-> list]
                                            /\ \A j \in DOMAIN list : list[j] # NoResult
                                            /\ w.handlers[agg].triggered
                                       ELSE /\ FiresOf(w, agg) = <<>>
                                            /\ ~w.handlers[agg].triggered
                /\ \A i \in DOMAIN cl.results, e \in Exceptions :
                       ~handlers[ChildOf(c, i)].triggered =>
                           LET w == set_exception(World, ChildOf(c, i), e)
                           IN  IF handlers[agg].triggered
                               THEN /\ FiresOf(w, agg) = <<>>
                                    /\ ~Raised(w)
                                    /\ w.closures = closures
                                    /\ w.handlers[agg] = handlers[agg]
                               ELSE /\ Len(FiresOf(w, agg)) = 1
                                    /\ FiresOf(w, agg)[1].kind = "exception"
                                    /\ FiresOf(w, agg)[1].val = e
                                    /\ w.handlers[agg].triggered
                                    /\ w.closures = closures

\* An aggregate of two children has fired once with both results, the
\* second child having succeeded before the first, with a different result.
C26_FiredOutOfChildOrder ==
    \E c \in 1..Len(closures) :
        /\ Aggregated(c)
        /\ closures[c].done = <<2, 1>>
        /\ closures[c].pending = {}
        /\ closures[c].results[1] # closures[c].results[2]
        /\ handlers[closures[c].result_handler].triggered
        /\ handlers[closures[c].result_handler].nfired = 1

\* The world in which the next entry point is called, after one returned
\* or raised with world w.
AfterCall(w) == [w EXCEPT !.effects = <<>>, !.exc = NoExc]

\* C24: an action error is not fatal to the connection.  When the parser is
\* between two messages with nothing buffered and one data_received call
\* delivers the Error response of a pending action followed by a complete
\* event, the action's Handler fires with the exception and the action is no
\* longer pending, the event is parsed and dispatched once, the parser is
\* idle again with nothing buffered, and an event delivered by a later call
\* is dispatched too; and this whether or not the Handler has an exception
\* callback.
C24_ActionErrorNonFatal ==
    \A aid \in DOMAIN _actions \cap WireIds :
        (parser.state = "idle" /\ receiver.chunks = <<>>) =>
            LET w == protocol_data_received(World, WireError(aid) \o WireEvent("Hangup"))
                later == protocol_data_received(AfterCall(w), WireEvent("Hangup"))
            IN  /\ Len(EffectsOf(w, {"fire"})) = 1
                /\ EffectsOf(w, {"fire"})[1].h = _actions[aid]
                /\ EffectsOf(w, {"fire"})[1].kind = "exception"
                /\ aid \notin DOMAIN w.actions
                /\ Len(Routed(w)) = 1
                /\ Routed(w)[1].name = "Hangup"
                /\ w.parser.state = "idle"
                /\ w.receiver.chunks = <<>>
                /\ Len(Routed(later)) = 1

\* C32: a token of send_action can be cancelled.  For every pending action,
\* cancel on its Handler raises nothing and takes the action out of the
\* action map; a response or an event under the action's id that arrives
\* afterwards fires nothing and calls no callback; and cancel on a Handler
\* that has fired or is in no action map raises nothing and changes nothing.
C32_CancelDetaches ==
    /\ \A aid \in DOMAIN _actions :
           LET w == cancel(World, _actions[aid])
           IN  /\ ~Raised(w)
               /\ aid \notin DOMAIN w.actions
               /\ \A resp \in ResponsesFor(aid) :
                      EffectsOf(response_received(AfterCall(w), resp), {"fire", "call"}) = <<>>
               /\ \A event \in EventsFor(aid) :
                      EffectsOf(event_received(AfterCall(w), event), {"fire", "call"}) = <<>>
    /\ \A h \in 1..Len(handlers) :
           h \notin Registered(_actions) =>
               /\ ~Raised(cancel(World, h))
               /\ AfterCall(cancel(World, h)) = World

\* C33: every action id with an event list open has a registered Handler
\* that has not fired: the keys of the event-list map are keys of the
\* action map.
C33_EventListsHaveActions ==
    \A a \in DOMAIN _event_lists :
        /\ a \in DOMAIN _actions
        /\ ~handlers[_actions[a]].triggered

\* The header maps of a message, as the sequence of their items: the first
\* item is the Event or the Response header.
Item(key, value) == [key |-> key, values |-> [str |-> value]]

ListItem(key, list) == [key |-> key, values |-> [list |-> list]]

MessageMaps ==
    {<<Item("Event", "Hangup")>>,
     <<Item("Event", "Hangup"), Item("Cause", "16")>>,
     <<Item("Event", "Hangup"), ListItem("Variable", <<"a=1">>)>>,
     <<Item("Event", "Hangup"), ListItem("Variable", <<"a=1", "b=2">>)>>,
     <<Item("Response", "Success"), Item("ActionID", "1")>>,
     <<Item("Response", "Error"), Item("ActionID", "1"), Item("Message", "denied")>>}

\* The parser after line_received was given the lines of
\* serialize_message(items), one after the other.
RoundTrip(w, items) == HandLines(w, SplitLines(serialize_message(items)), 1).w

\* The structure the parser has built carries the names and values of the
\* items: the first item as the name of the Event or the type of the
\* Response, every other item as a header with the item's values.
Carries(p, items) ==
    /\ \/ items[1].key = "Event" /\ <<p.event_type>> = ValuesOf(items[1].values)
       \/ /\ items[1].key = "Response"
          /\ <<p.resp_type>> = <<Lower(ValuesOf(items[1].values)[1])>>
          /\ p.payload = <<>>
    /\ DOMAIN p.headers = {items[i].key : i \in 2..Len(items)}
    /\ \A i \in 2..Len(items) : <<p.headers[items[i].key]>> = ValuesOf(items[i].values)

\* C31: serialize_message and line_received are a round trip.  For every
\* header map of a message, with values that are a string or a list of
\* strings, the lines of serialize_message handed one by one to
\* line_received of an idle parser complete one Event or Response, and the
\* parser is idle again with a structure that carries the names and the
\* values of the map.
C31_RoundTrip ==
    parser.state = "idle" =>
        \A items \in MessageMaps :
            /\ RoundTrip(World, items).parser.state = "idle"
            /\ Carries(RoundTrip(World, items).parser, items)

---------------------------------------------------------------------------
(* Properties of the Async AGI executor.                                   *)

\* The first line of the decoded Result block of an Exec event.
FirstLine(event) == SplitLines(Unquote(event.headers["Result"]))[1]

\* C8: on a registered Async AGI channel, the command id of a submitted
\* command is not in the channel's command map while its AGI action awaits
\* the answer, and a success response to the action puts it there; then an
\* Exec event that names the channel and the command id removes the id,
\* fires the command's Handler exactly once, with the Response parsed from
\* the decoded Result if that is a 200 line with a result that is not
\* negative and with an exception otherwise, and leaves the channel's
\* parser idle.
C8_ExecFiresCommand ==
    /\ \A a \in DOMAIN _actions :
           LET cb == handlers[_actions[a]].result_cb
           IN  cb.k = "_on_action_success" => cb.cmd \notin DOMAIN chans[cb.chan].commands
    /\ \A resp \in AsyncResponses :
           LET a == HGet(resp.headers, "ActionID", None)
               w == response_received(World, resp)
           IN  (/\ a \in DOMAIN _actions
                /\ resp.type = "success"
                /\ handlers[_actions[a]].result_cb.k = "_on_action_success")
               => LET cb == handlers[_actions[a]].result_cb
                  IN  w.chans[cb.chan].commands = Put(chans[cb.chan].commands, cb.cmd, cb.h)
    /\ \A event \in AsyncEvents :
           (/\ ami
            /\ event.headers["SubEvent"] = "Exec"
            /\ event.headers["Channel"] \in DOMAIN _channels
            /\ event.headers["CommandID"] \in DOMAIN chans[_channels[event.headers["Channel"]]].commands)
           => LET c == _channels[event.headers["Channel"]]
                  h == chans[c].commands[event.headers["CommandID"]]
                  w == event_received(World, event)
                  line == FirstLine(event)
                  parsed == _parse_result(RStrip(From(line, 4), Whitespace))
              IN  /\ w.chans[c].commands = Del(chans[c].commands, event.headers["CommandID"])
                  /\ w.handlers[h].nfired = handlers[h].nfired + 1
                  /\ Len(EffectsOf(w, {"fire"})) = 1
                  /\ EffectsOf(w, {"fire"})[1].h = h
                  /\ IF /\ UpTo(line, 3) = <<"2", "0", "0">>
                        /\ ~parsed.err /\ parsed.has_result /\ parsed.result >= 0
                     THEN /\ EffectsOf(w, {"fire"})[1].kind = "result"
                          /\ Delivered(w) = AGIResponse(parsed.result, parsed.variables, parsed.data)
                     ELSE EffectsOf(w, {"fire"})[1].kind = "exception"
                  /\ w.protos[chans[c].proto].state = "idle"

\* The calls of the result callback of Handler h among the effects of a
\* call.
ResultCallsOf(w, h) ==
    SelectSeq(w.effects, LAMBDA x : x.e = "call" /\ x.h = h /\ x.kind = "result")

\* C9: an error response to the AGI action of a submitted command fires
\* the command's Handler on its exception path with ActionError(Message):
\* the Handler is triggered by exactly that one delivery, its exception
\* callback is called with the ActionError if one is bound and the
\* ActionError is raised to the caller if none is, its result callback is
\* not called, and the command id is not in the channel's command map.
C9_ActionErrorFiresCommand ==
    \A resp \in AsyncResponses :
        LET a == HGet(resp.headers, "ActionID", None)
            w == response_received(World, resp)
        IN  (/\ a \in DOMAIN _actions
             /\ resp.type = "error"
             /\ handlers[_actions[a]].exception_cb.k = "_on_action_failure")
            => LET cb == handlers[_actions[a]].exception_cb
                   error == Exc("ActionError", HGet(resp.headers, "Message", ""))
               IN  /\ w.handlers[cb.h].triggered
                   /\ w.handlers[cb.h].nfired = handlers[cb.h].nfired + 1
                   /\ FiresOf(w, cb.h) = <<[e |-> "fire", h |-> cb.h, kind |-> "exception", val |-> error]>>
                   /\ IF handlers[cb.h].exception_cb = NoCb
                      THEN w.exc.cls = "ActionError"
                      ELSE ~Raised(w)
                   /\ ResultCallsOf(w, cb.h) = <<>>
                   /\ cb.cmd \notin DOMAIN w.chans[cb.chan].commands

\* The lines of the decoded Env block of a Start event.
EnvLinesOf(event) == SplitLines(Unquote(event.headers["Env"]))

\* A line with nothing but its end.
IsBlank(line) == RStrip(line, {"\r", "\n"}) = <<>>

\* A well-formed AGI environment block that ends in a blank line: lines
\* "agi_KEY: value" and then one blank line.
WellFormedEnv(lines) ==
    /\ lines # <<>>
    /\ IsBlank(lines[Len(lines)])
    /\ \A i \in 1..(Len(lines) - 1) :
           /\ StartsWith(lines[i], <<"agi_">>)
           /\ Contains(lines[i], ":")

\* C10: a Start event for a channel id that is not registered, with an Env
\* that decodes to a well-formed AGI environment ending in a blank line,
\* registers exactly one new channel, under that id, whose parser is idle
\* and has a session bound, and the session's established callback is
\* called exactly once; with an Env that has no blank line, no channel is
\* registered and the established callback is not called.
C10_StartRegistersChannel ==
    \A event \in AsyncEvents :
        (/\ ami
         /\ event.headers["SubEvent"] = "Start"
         /\ event.headers["Channel"] \notin DOMAIN _channels)
        => LET channel_id == event.headers["Channel"]
               w == event_received(World, event)
               lines == EnvLinesOf(event)
           IN  IF WellFormedEnv(lines)
               THEN /\ DOMAIN w.channels = DOMAIN _channels \cup {channel_id}
                    /\ \A x \in DOMAIN _channels : w.channels[x] = _channels[x]
                    /\ w.channels[channel_id] = Len(chans) + 1
                    /\ Len(w.chans) = Len(chans) + 1
                    /\ LET proto == w.protos[w.chans[w.channels[channel_id]].proto]
                       IN  /\ proto.state = "idle"
                           /\ proto.session
                           /\ proto.nestablished = 1
                    /\ Len(EffectsOf(w, {"session_established"})) = 1
               ELSE (\A i \in 1..Len(lines) : ~IsBlank(lines[i]))
                    => /\ w.channels = _channels
                       /\ EffectsOf(w, {"session_established"}) = <<>>

\* A Start event has registered a channel: its parser is idle with the
\* session bound and established once, and no command was sent on it yet.
C10_ChannelStarted ==
    \E channel_id \in DOMAIN _channels :
        LET proto == protos[chans[_channels[channel_id]].proto]
        IN  /\ proto.state = "idle"
            /\ proto.session
            /\ proto.nestablished = 1
            /\ handlers = <<>>

\* The channel object c was registered and has ended (del channel.proto).
Ended(c) == chans[c].proto = 0

\* The Handlers of the commands of channel object c: those in its command
\* map, and those whose AGI action still awaits its answer.
CommandsOf(c) ==
    {chans[c].commands[cmd] : cmd \in DOMAIN chans[c].commands}
        \cup {handlers[_actions[a]].result_cb.h :
                  a \in {x \in DOMAIN _actions :
                             /\ handlers[_actions[x]].result_cb.k = "_on_action_success"
                             /\ handlers[_actions[x]].result_cb.chan = c}}

\* C11: an End event for a registered channel unregisters the channel and
\* calls the finished callback of its session exactly once, and fires and
\* calls nothing else; the commands of an ended channel are unfired, and
\* no AsyncAGI event (Start, Exec or End, for any channel id and command
\* id, also once the channel id is registered again) fires one of them,
\* calls a callback of one or takes one out of the ended channel's map.
C11_EndLeavesCommandsUnfired ==
    /\ \A event \in AsyncEvents :
           (/\ ami
            /\ event.headers["SubEvent"] = "End"
            /\ event.headers["Channel"] \in DOMAIN _channels)
           => LET c == _channels[event.headers["Channel"]]
                  p == chans[c].proto
                  w == event_received(World, event)
              IN  /\ ~Raised(w)
                  /\ w.channels = Del(_channels, event.headers["Channel"])
                  /\ EffectsOf(w, {"session_finished"}) = <<[e |-> "session_finished", p |-> p]>>
                  /\ w.protos[p].nfinished = 1
                  /\ EffectsOf(w, {"fire", "call"}) = <<>>
                  /\ w.handlers = handlers
                  /\ w.chans[c].commands = chans[c].commands
    /\ \A c \in 1..Len(chans) :
           Ended(c) =>
               \A h \in CommandsOf(c) :
                   /\ handlers[h].nfired = 0
                   /\ \A event \in AsyncEvents :
                          LET w == event_received(World, event)
                          IN  /\ w.handlers[h] = handlers[h]
                              /\ SelectSeq(w.effects, LAMBDA x : x.e \in {"fire", "call"} /\ x.h = h) = <<>>
                              /\ w.chans[c].commands = chans[c].commands

\* A channel has ended with a command in its map, and its channel id is
\* registered again, for a new channel.
C11_EndedWithPendingCommand ==
    \E c \in 1..Len(chans), p \in 1..Len(protos) :
        /\ Ended(c)
        /\ chans[c].commands # EmptyMap
        /\ protos[p].channel.chan = c
        /\ protos[p].nfinished = 1
        /\ protos[p].channel_id \in DOMAIN _channels

\* The call that gave w left the channel registered under `other`, its
\* command map and its parser as they were.
ChannelUntouched(w, other) ==
    LET c == _channels[other]
    IN  /\ other \in DOMAIN w.channels
        /\ w.channels[other] = c
        /\ w.chans[c] = chans[c]
        /\ w.protos[chans[c].proto] = protos[chans[c].proto]

\* C12: with several channels registered, an AsyncAGI event leaves every
\* registered channel other than the one it names untouched: its parser
\* and its command map; an Exec event fires and calls back only the
\* Handler that the map of the channel it names holds under the command
\* id it names, and where that map holds no such id (the id may be pending
\* on another channel) it fires nothing and changes no channel, parser or
\* Handler; the answer to the AGI action of a command of one channel
\* leaves the other channels untouched.
C12_ChannelsIndependent ==
    /\ \A event \in ChannelExecs \cup AsyncEvents :
           ami =>
               LET ch == event.headers["Channel"]
                   w == event_received(World, event)
               IN  /\ \A other \in DOMAIN _channels \ {ch} : ChannelUntouched(w, other)
                   /\ event.headers["SubEvent"] = "Exec" =>
                          IF /\ ch \in DOMAIN _channels
                             /\ event.headers["CommandID"] \in DOMAIN chans[_channels[ch]].commands
                          THEN LET h == chans[_channels[ch]].commands[event.headers["CommandID"]]
                               IN  /\ \A g \in (1..Len(handlers)) \ {h} : w.handlers[g] = handlers[g]
                                   /\ \A i \in 1..Len(EffectsOf(w, {"fire", "call"})) :
                                          EffectsOf(w, {"fire", "call"})[i].h = h
                          ELSE /\ EffectsOf(w, {"fire", "call"}) = <<>>
                               /\ w.handlers = handlers
                               /\ w.chans = chans
                               /\ w.protos = protos
                               /\ w.channels = _channels
    /\ \A resp \in ChannelResponses :
           LET a == HGet(resp.headers, "ActionID", None)
               w == response_received(World, resp)
           IN  (/\ a \in DOMAIN _actions
                /\ handlers[_actions[a]].result_cb.k = "_on_action_success")
               => \A other \in DOMAIN _channels :
                      _channels[other] # handlers[_actions[a]].result_cb.chan
                          => ChannelUntouched(w, other)

\* Two channels are registered and each has a command in its map, its
\* AGI action answered and its Exec event still to come.
C12_ChannelsInterleaved ==
    \E a \in DOMAIN _channels, b \in DOMAIN _channels :
        /\ a # b
        /\ chans[_channels[a]].commands # EmptyMap
        /\ protos[chans[_channels[a]].proto].state = "awaiting-response"
        /\ chans[_channels[b]].commands # EmptyMap
        /\ protos[chans[_channels[b]].proto].state = "awaiting-response"

\* The handler the multiplexer holds for the AsyncAGI events is the
\* executor's.
ExecutorRegistered(w) ==
    /\ "AsyncAGI" \in DOMAIN w.event_handlers
    /\ w.event_handlers["AsyncAGI"].k = "_asyncagi_event_received"

\* A call that raised and changed nothing.
FailedUnchanged(w) == Raised(w) /\ [w EXCEPT !.exc = NoExc] = World

\* C29: the executor is bound exactly when the multiplexer holds its handler
\* for the AsyncAGI events, of which the multiplexer holds one at most.
\* bind raises and changes nothing when the executor is bound or when the
\* multiplexer holds a handler for the AsyncAGI events, and binds otherwise;
\* unbind raises ValueError and changes nothing when the executor is not
\* bound, and unbinds otherwise; with the executor not bound, send_command
\* on the idle parser of a channel raises ValueError, writes nothing, makes
\* no Handler and leaves the parser idle.
C29_BindingExclusive ==
    /\ ami <=> ExecutorRegistered(World)
    /\ IF ami \/ "AsyncAGI" \in DOMAIN _event_handlers
       THEN FailedUnchanged(bind(World))
       ELSE /\ ~Raised(bind(World))
            /\ bind(World).ami
            /\ ExecutorRegistered(bind(World))
    /\ IF ~ami
       THEN unbind(World).exc.cls = "ValueError" /\ FailedUnchanged(unbind(World))
       ELSE /\ ~Raised(unbind(World))
            /\ ~unbind(World).ami
            /\ "AsyncAGI" \notin DOMAIN unbind(World).event_handlers
    /\ \A p \in 1..Len(protos) :
           (~ami /\ protos[p].state = "idle") =>
               LET w == send_command(World, p, <<<<"noop">>>>)
               IN  /\ w.exc.cls = "ValueError"
                   /\ FailedUnchanged(w)
                   /\ w.protos[p].state = "idle"

\* The executor was unbound with a channel registered whose parser is idle,
\* and someone else's handler now has the AsyncAGI events.
C29_UnboundWithChannel ==
    /\ ~ami
    /\ "AsyncAGI" \in DOMAIN _event_handlers
    /\ \E ch \in DOMAIN _channels : protos[chans[_channels[ch]].proto].state = "idle"

\* The executor logs the event and drops it: a Start for a registered
\* channel, an Exec for an unknown channel or for a command id the channel
\* it names does not hold, an End for an unknown channel.
LoggedAndDropped(event) ==
    LET ch == event.headers["Channel"]
        subevent == event.headers["SubEvent"]
    IN  \/ subevent = "Start" /\ ch \in DOMAIN _channels
        \/ /\ subevent = "Exec"
           /\ \/ ch \notin DOMAIN _channels
              \/ event.headers["CommandID"] \notin DOMAIN chans[_channels[ch]].commands
        \/ subevent = "End" /\ ch \notin DOMAIN _channels

\* C30: with the executor bound, an event it logs and drops raises nothing,
\* leaves the channel map, every channel with its command map, every parser,
\* every Handler and the pending actions as they are, fires no Handler,
\* calls no callback and no session method.
C30_DroppedEventsChangeNothing ==
    \A event \in ChannelExecs \cup AsyncEvents :
        (ami /\ LoggedAndDropped(event)) =>
            LET w == event_received(World, event)
            IN  /\ ~Raised(w)
                /\ w.channels = _channels
                /\ w.chans = chans
                /\ w.protos = protos
                /\ w.handlers = handlers
                /\ w.actions = _actions
                /\ EffectsOf(w, {"fire", "call", "session_established", "session_finished"}) = <<>>
                /\ Len(EffectsOf(w, {"log"})) = 1

\* A registered channel holds a command that awaits its result, under an
\* id other than the first, while the other channel is unknown: a Start for
\* the channel, an Exec for it with the first id, and an Exec and an End for
\* the other channel are all dropped.
C30_PendingWhileDropping ==
    \E ch \in DOMAIN _channels :
        /\ DOMAIN chans[_channels[ch]].commands = {CommandIdStr(2)}
        /\ protos[chans[_channels[ch]].proto].state = "awaiting-response"
        /\ ChannelIds \ DOMAIN _channels # {}

\* The call that gave w has fired Handler h or has called a callback of h
\* with a result or an exception.
DeliveredTo(w, h) == \E i \in 1..Len(w.effects) : w.effects[i].e \in {"fire", "call"} /\ w.effects[i].h = h

\* The parser p is idle in w and takes a command.
TakesCommand(w, p) ==
    /\ w.protos[p].state = "idle"
    /\ ~Raised(send_command(AfterCall(w), p, <<<<"a">>>>))

\* C37: when the token of the command a parser was given last has fired,
\* with a result or with an exception, the parser is idle and send_command
\* is accepted; on an Async AGI channel this is so when the Exec event of
\* the command fires the token and also when the AMI refuses the command's
\* AGI action.
C37_FiredMeansIdle ==
    /\ \A resp \in AsyncResponses :
           LET a == HGet(resp.headers, "ActionID", None)
               w == response_received(World, resp)
           IN  (/\ a \in DOMAIN _actions
                /\ handlers[_actions[a]].exception_cb.k = "_on_action_failure")
               => LET cb == handlers[_actions[a]].exception_cb
                  IN  DeliveredTo(w, cb.h) => TakesCommand(w, chans[cb.chan].proto)
    /\ \A event \in AsyncEvents :
           \A c \in 1..Len(chans) : \A cmd \in DOMAIN chans[c].commands :
               DeliveredTo(event_received(World, event), chans[c].commands[cmd])
                   => TakesCommand(event_received(World, event), chans[c].proto)

\* C38: when the session's established callback submits a command at once,
\* as CLISession does, the Start event leaves the channel registered, and
\* the Success response to the AGI action followed by the Exec event for the
\* command fires the command's token.
C38_EstablishedCommandCompletes ==
    (protocol_factory = "CLIProtocol" /\ ami /\ Len(protos) < MaxProtos) =>
        \A ch \in ChannelIds :
            ch \notin DOMAIN _channels =>
                LET h == Len(handlers) + 1
                    w == event_received(World, Event("AsyncAGI", [SubEvent |-> "Start", Channel |-> ch,
                                                                  Env |-> GoodEnv]))
                    w1 == response_received(AfterCall(w),
                              Response("success", [ActionID |-> IntStr(_action_id),
                                                   Message |-> "Added AGI command to queue"], <<>>))
                    w2 == event_received(AfterCall(w1),
                              Event("AsyncAGI", [SubEvent |-> "Exec", Channel |-> ch,
                                                 CommandID |-> CommandIdStr(_command_id),
                                                 Result |-> <<"2", "0", "0", "%20", "result", "%3D", "0", "%0A">>]))
                IN  /\ ch \in DOMAIN w.channels
                    /\ Len(w2.handlers) >= h
                    /\ w2.handlers[h].triggered

\* The Success response to AGI action a, and the Exec event with a
\* well-formed status line for command cmd of the channel named ch.
AgiActionSuccess(a) ==
    Response("success", [ActionID |-> a, Message |-> "Added AGI command to queue"], <<>>)

ExecEvent(ch, cmd) ==
    Event("AsyncAGI", [SubEvent |-> "Exec", Channel |-> ch, CommandID |-> cmd,
                       Result |-> <<"2", "0", "0", "%20", "result", "%3D", "0", "%0A">>])

\* Handler h fired once more in w than it has in the state.
FiredOnceMore(w, h) == w.handlers[h].nfired = handlers[h].nfired + 1

\* C39: for a command submitted on a registered Async AGI channel, the
\* Success response to its AGI action and the Exec event naming its channel
\* and command id fire the command's token exactly once, whichever of the
\* two is received first.
C39_EitherOrderFiresOnce ==
    \A a \in DOMAIN _actions :
        LET cb == handlers[_actions[a]].result_cb
        IN  (cb.k = "_on_action_success" /\ chans[cb.chan].proto # 0) =>
                LET ch == protos[chans[cb.chan].proto].channel_id
                IN  (ch \in DOMAIN _channels /\ _channels[ch] = cb.chan) =>
                        /\ FiredOnceMore(event_received(AfterCall(response_received(World, AgiActionSuccess(a))),
                                                        ExecEvent(ch, cb.cmd)),
                                         cb.h)
                        /\ FiredOnceMore(response_received(AfterCall(event_received(World, ExecEvent(ch, cb.cmd))),
                                                           AgiActionSuccess(a)),
                                         cb.h)

---------------------------------------------------------------------------
(* Properties of the call manager.                                         *)

\* The calls of Call methods among the effects of a call, in order.
CallbacksOf(w) == EffectsOf(w, {"callback"})

\* The Call objects whose Originate action awaits its answer.
Originating ==
    {handlers[_actions[a]].result_cb.h :
         a \in {x \in DOMAIN _actions : handlers[_actions[x]].result_cb.k = "_call_queued"}}

\* C13: originate(call, headers) with a new Call writes exactly one action,
\* an Originate whose variables are the tracking variable set to a call id
\* that no call has, and calls nothing back; while the action awaits its
\* answer the call is not in queued_calls() and neither call_queued nor
\* call_failed was called; the Success response calls call_queued exactly
\* once and nothing else, and the call is then queued and not tracked; the
\* Error response calls call_failed exactly once with the ActionError and
\* nothing else, and the call is in neither queued_calls() nor
\* tracked_calls(), then and later.
C13_Originate ==
    /\ LET c == Len(call_objects) + 1
           w == originate([World EXCEPT !.call_objects = Append(@, NewCall)], c, OriginateHeaders, <<>>)
           call_id == IntStr(manager.call_id)
       IN  /\ ~Raised(w)
           /\ Len(EffectsOf(w, {"write"})) = 1
           /\ EffectsOf(w, {"write"})[1].message["Action"] = "Originate"
           /\ EffectsOf(w, {"write"})[1].message["Variable"] = <<<<TrackingVariable, "=", call_id>>>>
           /\ \A d \in 1..Len(call_objects) : call_objects[d].call_id # call_id
           /\ CallbacksOf(w) = <<>>
           /\ c \notin queued_calls(w) \cup tracked_calls(w)
    /\ \A c \in Originating :
           /\ c \notin queued_calls(World)
           /\ call_objects[c].nqueued = 0
           /\ call_objects[c].nfailed = 0
    /\ \A c \in 1..Len(call_objects) :
           (call_objects[c].nfailed > 0 /\ call_objects[c].nqueued = 0)
               => c \notin queued_calls(World) \cup tracked_calls(World)
    /\ \A resp \in CallResponses :
           LET a == resp.headers["ActionID"]
               w == response_received(World, resp)
           IN  (a \in DOMAIN _actions /\ handlers[_actions[a]].result_cb.k = "_call_queued")
               => LET c == handlers[_actions[a]].result_cb.h
                  IN  /\ Len(CallbacksOf(w)) = 1
                      /\ CallbacksOf(w)[1].call = c
                      /\ IF resp.type = "success"
                         THEN /\ CallbacksOf(w)[1].name = "call_queued"
                              /\ w.call_objects[c].nqueued = 1
                              /\ c \in queued_calls(w)
                              /\ c \notin tracked_calls(w)
                         ELSE /\ CallbacksOf(w)[1].name = "call_failed"
                              /\ CallbacksOf(w)[1].args =
                                     <<Exc("ActionError", resp.headers["Message"])>>
                              /\ w.call_objects[c].nfailed = 1
                              /\ c \notin queued_calls(w) \cup tracked_calls(w)

\* Two calls were originated: the first was accepted and is queued and not
\* tracked, the second was rejected.
C13_QueuedAndRejected ==
    /\ Len(call_objects) = 2
    /\ call_objects[1].nqueued = 1
    /\ 1 \in queued_calls(World) \ tracked_calls(World)
    /\ call_objects[2].nfailed = 1
    /\ call_objects[2].nqueued = 0

\* C14: a VarSet event raises nothing and calls nothing back.  When its
\* Variable is the tracking variable and its Value is the call id of a
\* queued and untracked call, the call enters tracked_calls() and stays in
\* queued_calls(), the event's Uniqueid is the call's only channel and is
\* bound to the call, and the other calls stay where they were; when the
\* call of that id is already tracked, no channel is added to it and no
\* unique id is bound; when the Variable is another one or the Value is the
\* id of no live call, queued_calls(), tracked_calls() and the calls are
\* unchanged.
C14_VarSetTracks ==
    \A event \in VarSetEvents :
        LET h == event.headers
            k == h["Value"]
            w == event_received(World, event)
        IN  /\ ~Raised(w)
            /\ CallbacksOf(w) = <<>>
            /\ IF h["Variable"] = TrackingVariable /\ k \in DOMAIN manager.calls
               THEN LET c == manager.calls[k]
                    IN  IF c \notin tracked_calls(World)
                        THEN /\ c \in queued_calls(World)
                             /\ queued_calls(w) = queued_calls(World)
                             /\ tracked_calls(w) = tracked_calls(World) \cup {c}
                             /\ w.call_objects[c].unique_ids = {h["Uniqueid"]}
                             /\ w.manager.unique_ids[h["Uniqueid"]] = c
                        ELSE /\ queued_calls(w) = queued_calls(World)
                             /\ tracked_calls(w) = tracked_calls(World)
                             /\ w.call_objects = call_objects
                             /\ w.manager.unique_ids = manager.unique_ids
               ELSE /\ queued_calls(w) = queued_calls(World)
                    /\ tracked_calls(w) = tracked_calls(World)
                    /\ w.call_objects = call_objects
                    /\ w.manager.unique_ids = manager.unique_ids

\* The first call is tracked with one channel, bound to it, while the
\* second is still queued and untracked.
C14_TrackedBesideQueued ==
    /\ Len(call_objects) = 2
    /\ 1 \in tracked_calls(World)
    /\ \E u \in UniqueIds :
           /\ call_objects[1].unique_ids = {u}
           /\ u \in DOMAIN manager.unique_ids
           /\ manager.unique_ids[u] = 1
    /\ 2 \in queued_calls(World) \ tracked_calls(World)

\* The calls of the method name on the Call object c among the effects.
CallsOn(w, c, name) ==
    {i \in DOMAIN CallbacksOf(w) : CallbacksOf(w)[i].call = c /\ CallbacksOf(w)[i].name = name}

\* C15: for a tracked call and a Hangup event for one of its channels, when
\* the channel is the last of the call the event calls call_ended exactly
\* once and the call is then in neither the live-call map nor the unique-id
\* map, and when other channels remain the event calls no call_ended and
\* the call stays live; no call is ended twice, and an ended call is in
\* neither map.
C15_CallEndsAtLastHangup ==
    /\ \A c \in tracked_calls(World) : \A event \in HangupEvents :
           LET u == event.headers["Uniqueid"]
               w == event_received(World, event)
           IN  u \in call_objects[c].unique_ids
               => IF call_objects[c].unique_ids = {u}
                  THEN /\ Cardinality(CallsOn(w, c, "call_ended")) = 1
                       /\ w.call_objects[c].nended = 1
                       /\ c \notin Range(w.manager.calls)
                       /\ c \notin Range(w.manager.unique_ids)
                  ELSE /\ CallsOn(w, c, "call_ended") = {}
                       /\ c \in Range(w.manager.calls)
    /\ \A c \in 1..Len(call_objects) :
           /\ call_objects[c].nended <= 1
           /\ call_objects[c].nended = 1
                  => c \notin Range(manager.calls) \cup Range(manager.unique_ids)

\* Every channel of a live call is bound to that call in the unique-id map.
ChannelsBound ==
    \A c \in Range(manager.calls) : \A u \in call_objects[c].unique_ids :
        u \in DOMAIN manager.unique_ids /\ manager.unique_ids[u] = c

\* What the history of the call allows the callback cb of the call w to
\* be: call_queued on a call not yet queued, anything else on an outgoing
\* call only once it is queued, and nothing on a call that has failed or
\* ended.  A call the factory made in w has no history.
InOrder(w, cb) ==
    LET call == IF cb.call \in DOMAIN call_objects THEN call_objects[cb.call]
                ELSE [NewCall EXCEPT !.outgoing = w.call_objects[cb.call].outgoing]
    IN  /\ call.nfailed = 0
        /\ call.nended = 0
        /\ cb.name = "call_queued" => call.nqueued = 0
        /\ (cb.name \in {"dialing_started", "dialing_finished", "call_state_changed", "call_ended"}
                /\ call.outgoing)
               => call.nqueued = 1

\* C16: every response and every event calls at most one method of a Call,
\* and calls it in order: call_queued on a call that was not queued yet,
\* dialing_started, dialing_finished, call_state_changed and call_ended on
\* an outgoing call only after its call_queued, and no method on a call
\* whose call_failed or call_ended was called; so call_queued is called at
\* most once per call and call_failed and call_ended at most once together.
C16_CallbacksInOrder ==
    /\ \A c \in 1..Len(call_objects) :
           /\ call_objects[c].nqueued <= 1
           /\ call_objects[c].nfailed + call_objects[c].nended <= 1
    /\ \A resp \in CallResponses :
           LET w == response_received(World, resp)
           IN  /\ Len(CallbacksOf(w)) <= 1
               /\ \A i \in DOMAIN CallbacksOf(w) : InOrder(w, CallbacksOf(w)[i])
    /\ \A event \in CallEvents :
           LET w == event_received(World, event)
           IN  /\ Len(CallbacksOf(w)) <= 1
               /\ \A i \in DOMAIN CallbacksOf(w) : InOrder(w, CallbacksOf(w)[i])

\* One call was queued, tracked and ended, the other was queued and then
\* failed by an OriginateResponse event.
C16_EndedAndFailed ==
    \E c, d \in 1..Len(call_objects) :
        /\ call_objects[c].nqueued = 1
        /\ call_objects[c].nended = 1
        /\ call_objects[d].nqueued = 1
        /\ call_objects[d].nfailed = 1

\* C17: the candidates recorded are the headers of Newchannel events whose
\* channel name does not start with Local/, under their unique id, and a
\* Newchannel event records its headers exactly when its name is such.  A
\* Newstate event for a unique id bound to no call makes a call exactly when
\* a candidate is recorded for the unique id and a factory is registered:
\* the factory is then called once with the candidate's headers, the new
\* call is incoming and tracked with the unique id as its only channel, and
\* call_state_changed is called once, on the new call, with the state and
\* the description of the event; otherwise no call is made and no method of
\* a call is called.
C17_IncomingCallPromotion ==
    /\ \A u \in DOMAIN manager.new_channels :
           /\ manager.new_channels[u] \in {event.headers : event \in NewchannelEvents}
           /\ manager.new_channels[u]["Uniqueid"] = u
           /\ ~StartsWith(manager.new_channels[u]["Channel"], <<"Local/">>)
    /\ \A event \in NewchannelEvents :
           LET w == event_received(World, event)
               u == event.headers["Uniqueid"]
           IN  /\ CallbacksOf(w) = <<>>
               /\ w.call_objects = call_objects
               /\ IF StartsWith(event.headers["Channel"], <<"Local/">>)
                  THEN w.manager = manager
                  ELSE w.manager.new_channels = Put(manager.new_channels, u, event.headers)
    /\ \A event \in NewstateEvents :
           LET w == event_received(World, event)
               h == event.headers
               u == h["Uniqueid"]
               c == Len(call_objects) + 1
           IN  u \notin DOMAIN manager.unique_ids
               => IF u \in DOMAIN manager.new_channels /\ manager.incoming_call_factory
                  THEN /\ EffectsOf(w, {"factory"})
                              = <<[e |-> "factory", headers |-> manager.new_channels[u]]>>
                       /\ Len(w.call_objects) = c
                       /\ ~w.call_objects[c].outgoing
                       /\ w.call_objects[c].unique_ids = {u}
                       /\ w.manager.unique_ids = Put(manager.unique_ids, u, c)
                       /\ tracked_calls(w) = tracked_calls(World) \cup {c}
                       /\ c \notin queued_calls(w)
                       /\ u \notin DOMAIN w.manager.new_channels
                       /\ CallbacksOf(w)
                              = <<[e |-> "callback", call |-> c, name |-> "call_state_changed",
                                   args |-> <<IntOf(h["ChannelState"]), h["ChannelStateDesc"]>>]>>
                  ELSE /\ EffectsOf(w, {"factory"}) = <<>>
                       /\ CallbacksOf(w) = <<>>
                       /\ w.call_objects = call_objects
                       /\ w.manager.calls = manager.calls
                       /\ w.manager.unique_ids = manager.unique_ids

\* An incoming call was made from a candidate and is tracked in a state,
\* while a candidate is recorded for another unique id.
C17_IncomingCallTracked ==
    \E c \in tracked_calls(World) :
        /\ ~call_objects[c].outgoing
        /\ call_objects[c].state # NoState
        /\ \E u \in DOMAIN manager.new_channels : u \notin call_objects[c].unique_ids

\* The cause pair of a Hangup or SoftHangupRequest event.
CauseOf(event) ==
    Cause(IntOf(HGet(event.headers, "Cause", "0")), HGet(event.headers, "Cause-txt", ""))

\* The pair the causes seen so far give: the last non-zero one, or else the
\* first zero one, or else the one given.
Retained(call, pair) ==
    IF pair.cause # 0 THEN pair
    ELSE IF call.last_nonzero.set THEN call.last_nonzero
    ELSE IF call.first_zero.set THEN call.first_zero
    ELSE pair

\* C18: the pair a Hangup event passes to call_ended is the pair of the
\* last Hangup or SoftHangupRequest event with a non-zero Cause received for
\* a channel of the call, the ending event included, and when there was
\* none, the zero cause with the text of the first such event with a zero
\* Cause; between events the call holds that pair, and no pair before any
\* such event.
C18_HangupCauseRetained ==
    /\ \A c \in Range(manager.calls) :
           call_objects[c].last_hangup_cause = Retained(call_objects[c], NoCause)
    /\ \A event \in HangupEvents :
           LET w == event_received(World, event)
           IN  \A i \in DOMAIN CallbacksOf(w) :
                   LET cb == CallbacksOf(w)[i]
                       pair == Retained(call_objects[cb.call], CauseOf(event))
                   IN  cb.name = "call_ended" => cb.args = <<pair.cause, pair.txt>>

\* A call has ended after events with a non-zero cause and events with a
\* zero cause were received for its channels.
C18_EndedAfterBothCauses ==
    \E c \in 1..Len(call_objects) :
        /\ call_objects[c].nended = 1
        /\ call_objects[c].last_nonzero.set
        /\ call_objects[c].first_zero.set

\* The live calls that are not tracked and whose Originate action had the
\* id action_id.
QueuedUntracked(action_id) ==
    {c \in Range(manager.calls) \ tracked_calls(World) : call_objects[c].action_id = action_id}

\* C19: an OriginateResponse event with Response: Failure and the ActionID
\* of a live, untracked call takes the call out of the map of untracked
\* calls and out of the live calls, touches no other call, and calls
\* call_failed exactly once, on that call, with an OriginateError whose
\* reason is the number in Reason; every other OriginateResponse event
\* (another Response, an ActionID of no call, the ActionID of a tracked
\* call) changes nothing and calls no method of a call.
C19_AsyncOriginateFailure ==
    \A event \in OriginateResponseEvents :
        LET h == event.headers
            w == event_received(World, event)
        IN  /\ ~Raised(w)
            /\ Cardinality(QueuedUntracked(h["ActionID"])) <= 1
            /\ IF h["Response"] = "Failure" /\ QueuedUntracked(h["ActionID"]) # {}
               THEN \A c \in QueuedUntracked(h["ActionID"]) :
                        /\ h["ActionID"] \notin DOMAIN w.manager.actions
                        /\ Range(w.manager.actions) = Range(manager.actions) \ {c}
                        /\ Range(w.manager.calls) = Range(manager.calls) \ {c}
                        /\ w.manager.unique_ids = manager.unique_ids
                        /\ Len(CallbacksOf(w)) = 1
                        /\ CallbacksOf(w)[1].call = c
                        /\ CallbacksOf(w)[1].name = "call_failed"
                        /\ Len(CallbacksOf(w)[1].args) = 1
                        /\ CallbacksOf(w)[1].args[1].cls = "OriginateError"
                        /\ CallbacksOf(w)[1].args[1].reason = IntOf(h["Reason"])
                        /\ w.call_objects[c].nfailed = 1
               ELSE /\ CallbacksOf(w) = <<>>
                    /\ w.manager = manager
                    /\ w.call_objects = call_objects

\* A queued call was failed by an OriginateResponse event and is out of the
\* maps, while the other call is tracked.
C19_FailedBesideTracked ==
    \E c, d \in 1..Len(call_objects) :
        /\ call_objects[c].nqueued = 1
        /\ call_objects[c].nfailed = 1
        /\ c \notin Range(manager.calls) \cup Range(manager.actions)
        /\ d \in tracked_calls(World)

\* C34: the channel sets of the calls and the unique-id map say the same: a
\* unique id is in the channel set of a call exactly when the map binds it
\* to that call, so no unique id is in the channel sets of two calls.
C34_ChannelSetsAreTheMap ==
    \A c \in 1..Len(call_objects) : \A u \in UniqueIds :
        u \in call_objects[c].unique_ids
            <=> (u \in DOMAIN manager.unique_ids /\ manager.unique_ids[u] = c)

\* C35: every call in the map of queued, untracked calls is a live call, is
\* outgoing and has no channel; every live call that is not in that map
\* has a channel; so tracked_calls() is the set of the live calls with at
\* least one channel.
C35_UntrackedHaveNoChannel ==
    /\ \A c \in Range(manager.actions) :
           /\ c \in Range(manager.calls)
           /\ call_objects[c].outgoing
           /\ call_objects[c].unique_ids = {}
    /\ \A c \in Range(manager.calls) \ Range(manager.actions) :
           call_objects[c].unique_ids # {}
    /\ tracked_calls(World) = {c \in Range(manager.calls) : call_objects[c].unique_ids # {}}

\* The Success response to Originate action a, and the VarSet event that
\* carries the tracking variable with call_id for the channel u.
OriginateSuccess(a) ==
    Response("success", [ActionID |-> a, Message |-> "Originate successfully queued"], <<>>)

TrackingVarSet(call_id, u) ==
    Event("VarSet", [Variable |-> TrackingVariable, Value |-> call_id, Uniqueid |-> u,
                     Channel |-> <<"Local/", "6004">>])

\* Call c is tracked with unique id u in w.
TrackedWith(w, c, u) ==
    /\ u \in DOMAIN w.manager.unique_ids
    /\ w.manager.unique_ids[u] = c
    /\ u \in w.call_objects[c].unique_ids

\* C40: for an originated call, the Success response to its Originate action
\* and the VarSet event carrying the tracking variable with the call's id
\* leave the call tracked with the event's unique id, whichever of the two
\* is received first.
C40_EitherOrderTracks ==
    \A a \in DOMAIN _actions :
        LET cb == handlers[_actions[a]].result_cb
        IN  cb.k = "_call_queued" =>
                \A u \in UniqueIds :
                    u \notin DOMAIN manager.unique_ids =>
                   /\ TrackedWith(event_received(AfterCall(response_received(World, OriginateSuccess(a))),
                                                 TrackingVarSet(cb.cmd, u)),
                                  cb.h, u)
                   /\ TrackedWith(response_received(AfterCall(event_received(World, TrackingVarSet(cb.cmd, u))),
                                                    OriginateSuccess(a)),
                                  cb.h, u)

---------------------------------------------------------------------------
(* Properties of the line receiver.                                        *)

\* The lines a new receiver emits for the bytes s cut at the positions of
\* cutset, fed from position pos on.
RECURSIVE Run(_, _, _, _)
Run(lr, s, cutset, pos) ==
    IF pos = Len(s) THEN lr.lines
    ELSE LET ends == {c \in cutset : c > pos} \cup {Len(s)}
             next == CHOOSE c \in ends : \A d \in ends : c <= d
         IN  Run(data_received(lr, SubSeq(s, pos + 1, next)), s, cutset, next)

\* The position in s of the last byte of its line i.
RECURSIVE EndOfLine(_, _)
EndOfLine(s, i) == IF i = 0 THEN 0 ELSE EndOfLine(s, i - 1) + Len(SplitLines(s)[i])

\* short is full without its line feed, full ends in CR LF, and the pair,
\* which ends at position e of the stream, was cut between two chunks.
SwallowedLf(short, full, e, cutset) ==
    /\ EndsWith(full, <<"\r", "\n">>)
    /\ short = SubSeq(full, 1, Len(full) - 1)
    /\ (e - 1) \in cutset

\* C20: for the bytes fed so far, cut as they were, and the same bytes cut
\* in any other way, the lines emitted are as many, and at each place they
\* are the same line, or one is a line that ends in CR LF and the other is
\* that line without the LF, in the partition that cut the pair between CR
\* and LF.
C20_ChunkingIndependent ==
    \A cutset \in SUBSET (1..(Len(receiver.fed) - 1)) :
        LET fed == receiver.fed
            A == receiver.lines
            B == Run(NewLineReceiver, fed, cutset, 0)
        IN  /\ Len(A) = Len(B)
            /\ \A i \in 1..Len(A) :
                   \/ A[i] = B[i]
                   \/ SwallowedLf(A[i], B[i], EndOfLine(fed, i), receiver.cuts)
                   \/ SwallowedLf(B[i], A[i], EndOfLine(fed, i), cutset)

\* The bytes fed hold a CR LF pair cut between two chunks, whose line was
\* emitted ending in CR, and a line after it.
C20_SplitPairSwallowed ==
    \E i \in 1..Len(receiver.lines) :
        /\ i < Len(receiver.lines)
        /\ SwallowedLf(receiver.lines[i], SplitLines(receiver.fed)[i],
                       EndOfLine(receiver.fed, i), receiver.cuts)

\* C21: a chunk that ends in CR leaves nothing buffered: the call emits a
\* line that ends in that CR.  Of the bytes received next, a first LF is
\* dropped and emits no line, and nothing else is dropped: a lone LF emits
\* nothing, a second LF, in the same chunk or in the next, is emitted as a
\* line, and bytes that do not start with LF are handled as after any other
\* complete line.
C21_BareCrEmittedAtOnce ==
    \A data \in {d \in ByteStrings(2) : d[Len(d)] = "\r"} :
        LET lr == data_received(receiver, data)
            plain == [lr EXCEPT !.eat_lf = FALSE]
        IN  /\ JoinChunks(lr.chunks) = <<>>
            /\ Len(lr.lines) > Len(receiver.lines)
            /\ EndsWith(lr.lines[Len(lr.lines)], <<"\r">>)
            /\ data_received(lr, <<"\n">>).lines = lr.lines
            /\ JoinChunks(data_received(lr, <<"\n">>).chunks) = <<>>
            /\ data_received(lr, <<"\n", "\n">>).lines = Append(lr.lines, <<"\n">>)
            /\ data_received(data_received(lr, <<"\n">>), <<"\n">>).lines = Append(lr.lines, <<"\n">>)
            /\ \A rest \in ByteStrings(2) :
                   LET next == data_received(lr, rest)
                   IN  IF rest[1] = "\n"
                       THEN Len(rest) > 1
                                => /\ next.lines = data_received(plain, Tail(rest)).lines
                                   /\ next.chunks = data_received(plain, Tail(rest)).chunks
                       ELSE /\ next.lines = data_received(plain, rest).lines
                            /\ next.chunks = data_received(plain, rest).chunks

\* A chunk ended in CR, the next chunk was one LF and the chunk after it
\* began with LF: the lines are the one ending in CR and the second LF.
C21_LfAfterCrSwallowed ==
    \E c \in receiver.cuts :
        /\ receiver.fed[c] = "\r"
        /\ (c + 1) \in receiver.cuts
        /\ receiver.fed[c + 1] = "\n"
        /\ Len(receiver.fed) = c + 2
        /\ receiver.fed[c + 2] = "\n"
        /\ Len(receiver.lines) = 2
        /\ EndsWith(receiver.lines[1], <<"\r">>)
        /\ receiver.lines[2] = <<"\n">>

\* C36: an empty chunk is a no-op anywhere in the stream.  data_received
\* with no bytes emits no line, and the lines emitted for the chunk that
\* comes next are those emitted for it had the empty chunk not come; so an
\* LF after a line emitted at its CR is still swallowed when an empty chunk
\* came between the two.
C36_EmptyChunkNoOp ==
    LET lr == data_received(receiver, <<>>)
    IN  /\ lr.lines = receiver.lines
        /\ \A rest \in ByteStrings(2) :
               data_received(lr, rest).lines = data_received(receiver, rest).lines

=============================================================================
